---- MODULE Spec2Model ----
(***************************************************************************)
(* Cost allocation and margin computation of mini-muse.                    *)
(*                                                                         *)
(* Money is held as an integer number of storage units: one unit is        *)
(* 0.0001, the grid of the NUMERIC(12,4) columns.  A cent is 100 units.    *)
(* Python computes with Decimal (28 significant digits) and PostgreSQL     *)
(* rounds a value to the column's scale when the row is flushed; the model *)
(* keeps every in-memory quotient exact (numerator, denominator) and       *)
(* rounds once, where the code stores it.  VAT rates are held in units of  *)
(* 0.01 percent (NUMERIC(5,2)), so 18.00 % is 1800.                        *)
(*                                                                         *)
(* The single-item sale flow (app/api/sales.py, app/routes/sales.py) keeps *)
(* its amounts in NUMERIC(12,2) columns: there an amount is an integer     *)
(* number of cents, and the item's VAT rate a fraction in units of 0.0001  *)
(* (NUMERIC(6,4)), so 0.18 is 1800.                                        *)
(***************************************************************************)
EXTENDS Integers, Sequences, FiniteSets, TLC

VARIABLES
    today,      \* datetime.utcnow().date()
    items,      \* table items: sku -> [vat_rate]
    pos,        \* table purchase_orders, row id = index
    plines,     \* table purchase_lines, row id = index
    sorders,    \* table sales_orders, row id = index
    slines,     \* table sales_lines, row id = index
    resolved,   \* the last _compute_unit_cost_basis call: arguments and result
    sale_items, \* table items of the single-item sale flow, row id -> row
    sales,      \* table sales of the single-item sale flow, row id = index
    requests,   \* the purchase requests being served: request id -> position
    daily_metrics,      \* table daily_metrics, in insertion order
    sku_metrics_daily,  \* table sku_metrics_daily, in insertion order
    sales_requests,     \* the sales imports being served: request id -> position
    audit_log,          \* table audit_log, in insertion order
    sale_requests       \* the single-item sale requests being served

vars ==
    <<today, items, pos, plines, sorders, slines, resolved, sale_items, sales,
      requests, daily_metrics, sku_metrics_daily, sales_requests, audit_log,
      sale_requests>>

\* A nullable column: None is SQL NULL / Python None, Some(v) a value.
None == <<>>
Some(v) == <<v>>
OrZero(x) == IF x = None THEN 0 ELSE x[1]

---------------------------------------------------------------------------
(* Bounds of the model *)

MaxLines == 2       \* purchase lines in the database
MaxDate == 4        \* calendar days 1..MaxDate
MaxSalesLines == 2  \* sales lines in the database

PurchaseOrderIds == {1, 2}      \* purchase orders in the database

RequestIds == {1, 2}            \* purchase requests served at the same time

Dates == 1..MaxDate
SKUs == {"A", "B"}

---------------------------------------------------------------------------
(* Column types *)

\* n/d (d > 0) rounded to the nearest integer, ties away from zero: the
\* rounding PostgreSQL applies when a numeric is stored at a smaller scale.
RoundDiv(n, d) ==
    IF n >= 0 THEN (2 * n + d) \div (2 * d)
              ELSE -((2 * (-n) + d) \div (2 * d))

\* NUMERIC(12,4): the quotient n/d of two unit amounts, stored in units.
Numeric4(n, d) == RoundDiv(n, d)

\* NUMERIC(12,2): a unit amount stored on the cent grid.
Numeric2(x) == 100 * RoundDiv(x, 100)

---------------------------------------------------------------------------
(* Purchases: freight allocation (app/purchases/routes.py) *)

DefaultVat == 1800      \* Decimal("18.00")

\* freight_total = Decimal(str(po.freight_total)) if po.freight_total is not None else 0
FreightTotal(po) == OrZero(po.freight_total)

\* method = po.allocation_method or "value"
AllocationMethod(po) ==
    IF po.allocation_method = "" THEN "value" ELSE po.allocation_method

\* LineBase reading the stored landed cost where it should read the unit cost.
LineBaseFromLanded(method, ln) ==
    IF method = "qty" THEN ln.qty
    ELSE (IF ln.landed_unit_cost = None THEN ln.unit_cost_net
          ELSE ln.landed_unit_cost[1]) * ln.qty

\* The weight of a line: Decimal(ln.qty or 0) under "qty", otherwise
\* Decimal(str(ln.unit_cost_net)) * Decimal(ln.qty or 0).
LineBase(method, ln) ==
    IF method = "qty" THEN ln.qty ELSE ln.unit_cost_net * ln.qty

\* BaseTotal without the filter on the owning order.
RECURSIVE BaseTotalAllOrders(_, _, _, _)
BaseTotalAllOrders(L, id, method, i) ==
    IF i = 0 THEN 0
    ELSE BaseTotalAllOrders(L, id, method, i - 1) + LineBase(method, L[i])

\* base_total = sum(base(ln) for ln in lines), over the lines of order id
\* among the first i rows.
RECURSIVE BaseTotal(_, _, _, _)
BaseTotal(L, id, method, i) ==
    IF i = 0 THEN 0
    ELSE BaseTotal(L, id, method, i - 1)
         + (IF L[i].purchase_order_id = id THEN LineBase(method, L[i]) ELSE 0)

\* ZeroFreightLine leaving the per-unit freight as it was.
ZeroFreightLineStale(ln) ==
    [ln EXCEPT !.freight_allocated_total = Some(0),
               !.landed_unit_cost =
                   Some(ln.unit_cost_net + OrZero(ln.packaging_per_unit))]

\* The branch freight_total <= 0.
ZeroFreightLine(ln) ==
    [ln EXCEPT !.freight_allocated_total = Some(0),
               !.freight_allocated_per_unit = Some(0),
               !.landed_unit_cost =
                   Some(ln.unit_cost_net + OrZero(ln.packaging_per_unit))]

\* AllocLine with the packaging left out of the landed cost.
AllocLineNoPackaging(F, bt, base, ln) ==
    LET an  == IF bt > 0 THEN F * base ELSE 0
        ad  == IF bt > 0 THEN bt ELSE 1
        qty == IF ln.qty = 0 THEN 1 ELSE ln.qty
        pn  == IF qty > 0 THEN an ELSE 0
        pd  == IF qty > 0 THEN ad * qty ELSE 1
    IN [ln EXCEPT !.freight_allocated_total = Some(Numeric4(an, ad)),
                  !.freight_allocated_per_unit = Some(Numeric4(pn, pd)),
                  !.landed_unit_cost =
                      Some(Numeric4(ln.unit_cost_net * pd + pn, pd))]

\* AllocLine dividing by the total weight whatever its sign.
AllocLineAnySign(F, bt, base, ln) ==
    LET sg  == IF bt < 0 THEN -1 ELSE 1
        an  == IF bt # 0 THEN sg * F * base ELSE 0
        ad  == IF bt # 0 THEN sg * bt ELSE 1
        qty == IF ln.qty = 0 THEN 1 ELSE ln.qty
        pn  == IF qty > 0 THEN an ELSE 0
        pd  == IF qty > 0 THEN ad * qty ELSE 1
        pkg == OrZero(ln.packaging_per_unit)
    IN [ln EXCEPT !.freight_allocated_total = Some(Numeric4(an, ad)),
                  !.freight_allocated_per_unit = Some(Numeric4(pn, pd)),
                  !.landed_unit_cost =
                      Some(Numeric4((ln.unit_cost_net + pkg) * pd + pn, pd))]

\* The loop body of the "qty" and of the "value" branch (the two differ only
\* in base).  alloc = an/ad and freight_allocated_per_unit = pn/pd are the
\* in-memory Decimals; each column is rounded when the row is stored.
AllocLine(F, bt, base, ln) ==
    LET an  == IF bt > 0 THEN F * base ELSE 0
        ad  == IF bt > 0 THEN bt ELSE 1
        qty == IF ln.qty = 0 THEN 1 ELSE ln.qty
        pn  == IF qty > 0 THEN an ELSE 0
        pd  == IF qty > 0 THEN ad * qty ELSE 1
        pkg == OrZero(ln.packaging_per_unit)
    IN [ln EXCEPT !.freight_allocated_total = Some(Numeric4(an, ad)),
                  !.freight_allocated_per_unit = Some(Numeric4(pn, pd)),
                  !.landed_unit_cost =
                      Some(Numeric4((ln.unit_cost_net + pkg) * pd + pn, pd))]

\* _recalc_allocations(po): the purchase_lines table after the call.
recalc_allocations(L, po, id) ==
    LET F      == FreightTotal(po)
        method == AllocationMethod(po)
        bt     == BaseTotal(L, id, method, Len(L))
    IN [i \in 1..Len(L) |->
          IF L[i].purchase_order_id # id THEN L[i]
          ELSE IF F <= 0 THEN ZeroFreightLine(L[i])
          ELSE AllocLine(F, bt, LineBase(method, L[i]), L[i])]

\* edit_costs: store the form's freight total and method, commit, recalculate.
edit_costs(id, freight, method) ==
    /\ id \in 1..Len(pos)
    /\ LET po == [pos[id] EXCEPT
                    !.freight_total =
                        IF freight = None THEN None ELSE Some(Numeric2(freight[1])),
                    !.allocation_method = method]
       IN /\ pos' = [pos EXCEPT ![id] = po]
          /\ plines' = recalc_allocations(plines, po, id)
    /\ UNCHANGED <<audit_log, sale_requests, sales_requests, daily_metrics, sku_metrics_daily, requests, sale_items, sales, today, items, sorders, slines, resolved>>

\* The inner loop of import_commit over one order's lines; db = [items, plines].
RECURSIVE import_lines(_, _, _, _)
import_lines(db, id, lns, create_missing) ==
    IF lns = <<>> THEN db
    ELSE LET ln   == Head(lns)
             have == ln.sku \in DOMAIN db.items
             its  == IF ~have /\ create_missing
                     THEN db.items @@ (ln.sku :> [vat_rate |-> DefaultVat])
                     ELSE db.items
             pl   == [purchase_order_id |-> id,
                      sku |-> ln.sku,
                      qty |-> ln.qty,
                      unit_cost_net |-> ln.unit_cost_net,
                      packaging_per_unit |-> Some(ln.packaging_per_unit),
                      freight_allocated_total |-> None,
                      freight_allocated_per_unit |-> None,
                      landed_unit_cost |-> None]
             nxt  == IF ln.sku = "" \/ (~have /\ ~create_missing)
                     THEN db
                     ELSE [items |-> its, plines |-> Append(db.plines, pl)]
         IN import_lines(nxt, id, Tail(lns), create_missing)

\* The outer loop of import_commit; db = [items, pos, plines].
RECURSIVE import_orders(_, _, _, _)
import_orders(db, orders, create_missing, day) ==
    IF orders = <<>> THEN db
    ELSE LET o  == Head(orders)
             po == [order_date |-> o.order_date,
                    arrival_date |-> o.arrival_date,
                    created_at |-> Some(day),
                    freight_total |->
                        IF o.freight_total = None THEN None
                        ELSE Some(Numeric2(o.freight_total[1])),
                    allocation_method |->
                        IF o.allocation_method = "" THEN "value"
                        ELSE o.allocation_method]
             P  == Append(db.pos, po)
             r  == import_lines([items |-> db.items, plines |-> db.plines],
                                Len(P), o.lines, create_missing)
         IN import_orders([items |-> r.items, pos |-> P, plines |-> r.plines],
                          Tail(orders), create_missing, day)

\* for po in PurchaseOrder.query.order_by(id.desc()).limit(n): _recalc_allocations(po)
RECURSIVE recalc_newest(_, _, _, _)
recalc_newest(P, L, n, id) ==
    IF n = 0 \/ id = 0 THEN L
    ELSE recalc_newest(P, recalc_allocations(L, P[id], id), n - 1, id - 1)

\* purchases import_commit for a batch payload.
purchase_import_commit(orders, create_missing) ==
    /\ LET db == import_orders([items |-> items, pos |-> pos, plines |-> plines],
                               orders, create_missing, today)
       IN /\ items' = db.items
          /\ pos' = db.pos
          /\ plines' = recalc_newest(db.pos, db.plines, Len(orders), Len(db.pos))
    /\ UNCHANGED <<audit_log, sale_requests, sales_requests, daily_metrics, sku_metrics_daily, requests, sale_items, sales, today, sorders, slines, resolved>>

---------------------------------------------------------------------------
(* Purchases: the handlers step by step.  Every db.session.commit() ends a
   transaction, and what it wrote is visible to every other request from
   then on (app/purchases/routes.py). *)

\* The position of a request: op is the handler, pc the point it has reached,
\* pending the orders still to recalculate, seen_po the order as the handler
\* loaded it, po and seen the order and the purchase_lines table as
\* _recalc_allocations read them.
Request(op, pc, po_id, freight, method, pending, seen_po, po, seen) ==
    [op |-> op, pc |-> pc, po_id |-> po_id, freight |-> freight,
     method |-> method, pending |-> pending, seen_po |-> seen_po, po |-> po,
     seen |-> seen]

Idle == Request("idle", "idle", 0, None, "", <<>>, None, None, <<>>)

\* The unit of work writes an attribute only when the value set differs from
\* the value loaded: otherwise the row keeps what is committed.
Flushed(current, loaded, set) == IF set = loaded THEN current ELSE set

\* edit_costs, db.session.get(PurchaseOrder, po_id): the order is loaded.
edit_costs_load(r, id, freight, method) ==
    /\ requests[r] = Idle
    /\ id \in 1..Len(pos)
    /\ requests' = [requests EXCEPT ![r] =
           Request("edit_costs", "loaded", id,
                   IF freight = None THEN None ELSE Some(Numeric2(freight[1])),
                   method, <<>>, Some(pos[id]), None, <<>>)]
    /\ UNCHANGED <<audit_log, sale_requests, sales_requests, daily_metrics, sku_metrics_daily, today, items, pos, plines, sorders, slines, resolved,
                   sale_items, sales>>

\* edit_costs, po.freight_total = ...; po.allocation_method = ...;
\* db.session.commit(): the first transaction.
edit_costs_commit(r) ==
    LET q == requests[r]
    IN /\ q.op = "edit_costs" /\ q.pc = "loaded"
       /\ pos' = [pos EXCEPT ![q.po_id] =
              [@ EXCEPT !.freight_total =
                            Flushed(@, q.seen_po[1].freight_total, q.freight),
                        !.allocation_method =
                            Flushed(@, q.seen_po[1].allocation_method, q.method)]]
       /\ requests' = [requests EXCEPT ![r].pc = "recalc",
                                       ![r].pending = <<q.po_id>>]
       /\ UNCHANGED <<audit_log, sale_requests, sales_requests, daily_metrics, sku_metrics_daily, today, items, plines, sorders, slines, resolved,
                      sale_items, sales>>

\* import_commit up to its db.session.commit(): the orders and their lines are
\* stored, the lines without allocation and landed cost.
import_commit_rows(r, orders, create_missing) ==
    /\ requests[r] = Idle
    /\ LET db == import_orders([items |-> items, pos |-> pos, plines |-> plines],
                               orders, create_missing, today)
       IN /\ items' = db.items
          /\ pos' = db.pos
          /\ plines' = db.plines
    /\ requests' = [requests EXCEPT ![r] =
           Request("import_commit", "committed", Len(orders), None, "", <<>>,
                   None, None, <<>>)]
    /\ UNCHANGED <<audit_log, sale_requests, sales_requests, daily_metrics, sku_metrics_daily, today, sorders, slines, resolved, sale_items, sales>>

\* import_commit, new_pos = PurchaseOrder.query.order_by(id.desc())
\*                              .limit(created_pos).all()
import_commit_select(r) ==
    LET q == requests[r]
        n == IF q.po_id < Len(pos) THEN q.po_id ELSE Len(pos)
    IN /\ q.op = "import_commit" /\ q.pc = "committed"
       /\ requests' = [requests EXCEPT
              ![r].pc = "recalc",
              ![r].pending = [k \in 1..n |-> Len(pos) + 1 - k]]
       /\ UNCHANGED <<audit_log, sale_requests, sales_requests, daily_metrics, sku_metrics_daily, today, items, pos, plines, sorders, slines, resolved,
                      sale_items, sales>>

\* _recalc_allocations(po), the query of the lines and the reads of
\* po.freight_total and po.allocation_method.
recalc_read(r) ==
    LET q == requests[r]
    IN /\ q.pc = "recalc" /\ q.pending # <<>>
       /\ requests' = [requests EXCEPT ![r].pc = "read",
                                       ![r].po = Some(pos[Head(q.pending)]),
                                       ![r].seen = plines]
       /\ UNCHANGED <<audit_log, sale_requests, sales_requests, daily_metrics, sku_metrics_daily, today, items, pos, plines, sorders, slines, resolved,
                      sale_items, sales>>

\* _recalc_allocations(po), the loop over the lines read and
\* db.session.commit(); the handler returns after its last order.
recalc_write(r) ==
    LET q   == requests[r]
        id  == Head(q.pending)
        set == recalc_allocations(q.seen, q.po[1], id)
    IN /\ q.pc = "read"
       /\ plines' = [i \in 1..Len(plines) |->
              IF i > Len(q.seen) \/ plines[i].purchase_order_id # id
              THEN plines[i]
              ELSE [plines[i] EXCEPT
                      !.freight_allocated_total =
                          Flushed(@, q.seen[i].freight_allocated_total,
                                  set[i].freight_allocated_total),
                      !.freight_allocated_per_unit =
                          Flushed(@, q.seen[i].freight_allocated_per_unit,
                                  set[i].freight_allocated_per_unit),
                      !.landed_unit_cost =
                          Flushed(@, q.seen[i].landed_unit_cost,
                                  set[i].landed_unit_cost)]]
       /\ requests' = [requests EXCEPT ![r] =
              IF Tail(q.pending) = <<>> THEN Idle
              ELSE [q EXCEPT !.pc = "recalc", !.pending = Tail(q.pending),
                             !.po = None, !.seen = <<>>]]
       /\ UNCHANGED <<audit_log, sale_requests, sales_requests, daily_metrics, sku_metrics_daily, today, items, pos, sorders, slines, resolved,
                      sale_items, sales>>

---------------------------------------------------------------------------
(* Sales: cost basis (app/sales/routes.py) *)

\* _effective_po_date: arrival_date, else order_date, else created_at.date().
effective_po_date(po) ==
    IF po.arrival_date # None THEN po.arrival_date
    ELSE IF po.order_date # None THEN po.order_date
    ELSE po.created_at

\* _line_landed_cost: landed_unit_cost, else unit_cost_net + packaging_per_unit.
line_landed_cost(pl) ==
    IF pl.landed_unit_cost # None THEN pl.landed_unit_cost[1]
    ELSE pl.unit_cost_net + OrZero(pl.packaging_per_unit)

\* The query without its filter on the SKU.
RowsForAnySku(L, ord, sku) == ord

\* The query joins purchase_lines with purchase_orders on the SKU and has no
\* ORDER BY: storage returns the matching rows in some order.  ord is the
\* order in which storage returns the rows of purchase_lines.
RowsFor(L, ord, sku) == SelectSeq(ord, LAMBDA i : L[i].sku = sku)

\* enriched: (eff, po.id, qty, cost) of the rows with qty > 0, in row order.
Enriched(P, L, rows) ==
    LET kept == SelectSeq(rows, LAMBDA i : L[i].qty > 0)
    IN [k \in 1..Len(kept) |->
          [eff   |-> effective_po_date(P[L[kept[k]].purchase_order_id]),
           po_id |-> L[kept[k]].purchase_order_id,
           qty   |-> L[kept[k]].qty,
           cost  |-> line_landed_cost(L[kept[k]])]]

\* before = [r for r in enriched if r[0] is not None and sale_date is not None
\*           and r[0] <= sale_date], with < in place of <=.
BeforeStrict(enriched, sale_date) ==
    SelectSeq(enriched, LAMBDA r : /\ r.eff # None
                                   /\ sale_date # None
                                   /\ r.eff[1] < sale_date[1])

\* before = [r for r in enriched if r[0] is not None and sale_date is not None
\*           and r[0] <= sale_date]
Before(enriched, sale_date) ==
    SelectSeq(enriched, LAMBDA r : /\ r.eff # None
                                   /\ sale_date # None
                                   /\ r.eff[1] <= sale_date[1])

\* The sort key (x[0] is None, x[0]): a's key is greater than b's.
KeyGreater(a, b) ==
    \/ a.eff = None /\ b.eff # None
    \/ a.eff # None /\ b.eff # None /\ a.eff[1] > b.eff[1]

\* SortedFirst without reverse=True: the first candidate with the least key.
SortedFirstAscending(c) ==
    c[CHOOSE i \in 1..Len(c) :
         /\ \A j \in 1..Len(c) : ~KeyGreater(c[i], c[j])
         /\ \A j \in 1..(i - 1) : KeyGreater(c[j], c[i])]

\* sorted(candidates, key=..., reverse=True)[0]: the sort is stable, so it is
\* the first candidate, in row order, among those with the greatest key.
SortedFirst(c) ==
    c[CHOOSE i \in 1..Len(c) :
         /\ \A j \in 1..Len(c) : ~KeyGreater(c[j], c[i])
         /\ \A j \in 1..(i - 1) : KeyGreater(c[i], c[j])]

\* sum(Decimal(qty) for ...), counting rows instead of adding quantities.
RECURSIVE TotalQtyCount(_)
TotalQtyCount(c) == IF c = <<>> THEN 0 ELSE 1 + TotalQtyCount(Tail(c))

\* total_qty = sum(Decimal(qty) for _, _, qty, _ in candidates)
RECURSIVE TotalQty(_)
TotalQty(c) == IF c = <<>> THEN 0 ELSE Head(c).qty + TotalQty(Tail(c))

\* total_cost = sum(Decimal(qty) * Decimal(str(cost)) for ... in candidates)
RECURSIVE TotalCost(_)
TotalCost(c) ==
    IF c = <<>> THEN 0 ELSE Head(c).qty * Head(c).cost + TotalCost(Tail(c))

\* candidates = before if before else enriched, falling back to the first row
\* alone.
CandidateRowsFirstOnly(before, enriched) ==
    IF before # <<>> THEN before ELSE SubSeq(enriched, 1, 1)

\* candidates = before if before else enriched
CandidateRows(before, enriched) ==
    IF before # <<>> THEN before ELSE enriched

\* The result (unit_cost_basis, cost_source_po_id); the unit cost is the
\* in-memory Decimal num/den.
Basis(num, den, po) == [num |-> num, den |-> den, po |-> po]

\* _compute_unit_cost_basis(sku, sale_date, method), rows being the query's
\* result for the SKU.
compute_unit_cost_basis(P, L, sku, rows, sale_date, method) ==
    IF sku = "" \/ rows = <<>> THEN Basis(0, 1, None)
    ELSE LET enriched   == Enriched(P, L, rows)
             before     == Before(enriched, sale_date)
             candidates == CandidateRows(before, enriched)
         IN IF enriched = <<>> THEN Basis(0, 1, None)
            ELSE IF (IF method = "" THEN "weighted_avg" ELSE method) = "last"
            THEN LET first == SortedFirst(candidates)
                 IN Basis(first.cost, 1,
                          IF first.po_id # 0 THEN Some(first.po_id) ELSE None)
            ELSE IF TotalQty(candidates) <= 0 THEN Basis(0, 1, None)
            ELSE Basis(TotalCost(candidates), TotalQty(candidates), None)

\* One call of _compute_unit_cost_basis, its arguments and result kept.
resolve_cost_basis(sku, sale_date, method, ord) ==
    /\ resolved' = Some([sku |-> sku, sale_date |-> sale_date, method |-> method,
                         basis |-> compute_unit_cost_basis(
                                       pos, plines, sku, RowsFor(plines, ord, sku),
                                       sale_date, method)])
    /\ UNCHANGED <<audit_log, sale_requests, sales_requests, daily_metrics, sku_metrics_daily, requests, sale_items, sales, today, items, pos, plines, sorders, slines>>

---------------------------------------------------------------------------
(* Sales: import_commit (app/sales/routes.py) *)

RECURSIVE Gcd(_, _)
Gcd(a, b) == IF b = 0 THEN a ELSE Gcd(b, a % b)

\* An in-memory Decimal n/d (d > 0), kept in lowest terms.
Rat(n, d) ==
    LET g == Gcd(IF n < 0 THEN -n ELSE n, d)
    IN IF g = 0 THEN <<n, d>> ELSE <<n \div g, d \div g>>

\* _gross_to_net returning the gross amount as it is.
gross_to_netNoVat(gross, vat_rate) == gross

\* _gross_to_net(gross, vat_rate): gross / (1 + vat/100), gross itself when
\* the factor is not positive.  vat_rate is in units of 0.01 percent.
gross_to_net(gross, vat_rate) ==
    IF 10000 + vat_rate <= 0 THEN gross
    ELSE Rat(gross[1] * 10000, gross[2] * (10000 + vat_rate))

\* base_after_line_discount left unclamped.
BaseAfterLineDiscountUnclamped(unit_price_gross, qty, line_discount_gross) ==
    unit_price_gross * qty - line_discount_gross

\* gross_line - line_discount_gross, 0 when negative.
BaseAfterLineDiscount(unit_price_gross, qty, line_discount_gross) ==
    LET base == unit_price_gross * qty - line_discount_gross
    IN IF base < 0 THEN 0 ELSE base

\* The first loop over an order's lines: the prepared list and the items
\* created on the way; st = [items, prepared].
RECURSIVE prepare_lines(_, _, _)
prepare_lines(st, lns, create_missing) ==
    IF lns = <<>> THEN st
    ELSE LET ln   == Head(lns)
             have == ln.sku \in DOMAIN st.items
             its  == IF ln.sku # "" /\ ~have /\ create_missing
                     THEN st.items @@ (ln.sku :> [vat_rate |-> DefaultVat])
                     ELSE st.items
             skip == \/ ln.sku = ""
                     \/ ~have /\ ~create_missing
                     \/ ln.qty <= 0
             p    == [sku |-> ln.sku,
                      qty |-> ln.qty,
                      unit_price_gross |-> ln.unit_price_gross,
                      line_discount_gross |-> ln.line_discount_gross,
                      base_after_line_discount |->
                          BaseAfterLineDiscount(ln.unit_price_gross, ln.qty,
                                                ln.line_discount_gross)]
         IN prepare_lines([items |-> its,
                           prepared |-> IF skip THEN st.prepared
                                        ELSE Append(st.prepared, p)],
                          Tail(lns), create_missing)

\* total_base = sum(p["base_after_line_discount"] for p in prepared)
RECURSIVE TotalBase(_)
TotalBase(prepared) ==
    IF prepared = <<>> THEN 0
    ELSE Head(prepared).base_after_line_discount + TotalBase(Tail(prepared))

\* OrderDiscountAlloc capped at the line's base.
OrderDiscountAllocCapped(order_discount_total, base, total_base) ==
    IF order_discount_total > 0 /\ total_base > 0
    THEN IF order_discount_total > total_base THEN Rat(base, 1)
         ELSE Rat(order_discount_total * base, total_base)
    ELSE <<0, 1>>

\* alloc = order_discount_total * (base / total_base) when both are > 0, else 0.
OrderDiscountAlloc(order_discount_total, base, total_base) ==
    IF order_discount_total > 0 /\ total_base > 0
    THEN Rat(order_discount_total * base, total_base)
    ELSE <<0, 1>>

\* The body of the second loop: the SalesLine built for a prepared line.
sales_line(P, L, I, ord, so_id, order_date, order_discount_total, total_base, cost_method, p) ==
    LET alloc   == OrderDiscountAlloc(order_discount_total,
                                      p.base_after_line_discount, total_base)
        after   == Rat(p.base_after_line_discount * alloc[2] - alloc[1], alloc[2])
        gross_after_all_discounts == IF after[1] < 0 THEN <<0, 1>> ELSE after
        vat_rate == IF I[p.sku].vat_rate = 0 THEN DefaultVat ELSE I[p.sku].vat_rate
        unit_price_net == gross_to_net(<<p.unit_price_gross, 1>>, vat_rate)
        revenue_net    == gross_to_net(gross_after_all_discounts, vat_rate)
        basis   == compute_unit_cost_basis(P, L, p.sku, RowsFor(L, ord, p.sku),
                                           Some(order_date), cost_method)
        cost    == Rat(basis.num, basis.den)
        cost_total == Rat(cost[1] * p.qty, cost[2])
        profit  == Rat(revenue_net[1] * cost_total[2] - cost_total[1] * revenue_net[2],
                       revenue_net[2] * cost_total[2])
    IN [sales_order_id |-> so_id,
        sku |-> p.sku,
        qty |-> p.qty,
        unit_price_gross |-> p.unit_price_gross,
        line_discount_gross |->
            IF p.line_discount_gross # 0 THEN Some(p.line_discount_gross) ELSE None,
        order_discount_alloc_gross |->
            IF alloc[1] # 0 THEN Some(Numeric4(alloc[1], alloc[2])) ELSE None,
        vat_rate |-> vat_rate,
        unit_price_net |-> Some(Numeric4(unit_price_net[1], unit_price_net[2])),
        revenue_net |-> Some(Numeric4(revenue_net[1], revenue_net[2])),
        cost_method |-> cost_method,
        unit_cost_basis |-> Some(Numeric4(cost[1], cost[2])),
        cost_total |-> Some(Numeric4(cost_total[1], cost_total[2])),
        profit |-> Some(Numeric4(profit[1], profit[2])),
        cost_source_po_id |-> basis.po]

\* The loop over the payload's orders; db = [items, sorders, slines].
RECURSIVE sales_import_orders(_, _, _, _, _, _, _)
sales_import_orders(P, L, db, orders, create_missing, cost_method, ord) ==
    IF orders = <<>> THEN db
    ELSE LET o == Head(orders)
             order_date == IF o.order_date # None THEN o.order_date[1] ELSE today
             existing == \E k \in 1..Len(db.sorders) :
                            /\ db.sorders[k].channel = o.channel
                            /\ db.sorders[k].order_number = o.order_number
             order_disc_gross == OrZero(o.order_discount_gross)
             so == [order_number |-> o.order_number,
                    order_date |-> order_date,
                    channel |-> o.channel,
                    order_discount_gross |->
                        IF order_disc_gross # 0 THEN Some(Numeric2(order_disc_gross))
                        ELSE None]
             SO == Append(db.sorders, so)
             st == prepare_lines([items |-> db.items, prepared |-> <<>>],
                                 o.lines, create_missing)
             total_base == TotalBase(st.prepared)
             new == [k \in 1..Len(st.prepared) |->
                       sales_line(P, L, st.items, ord, Len(SO), order_date,
                                  order_disc_gross, total_base, cost_method,
                                  st.prepared[k])]
             nxt == IF o.order_number = "" \/ existing THEN db
                    ELSE [items |-> st.items, sorders |-> SO,
                          slines |-> db.slines \o new]
         IN sales_import_orders(P, L, nxt, Tail(orders), create_missing,
                                cost_method, ord)

\* sales import_commit for a batch payload; ord is the order in which storage
\* returns the rows of purchase_lines.
sales_import_commit(orders, create_missing, cost_method, ord) ==
    /\ LET db == sales_import_orders(pos, plines,
                     [items |-> items, sorders |-> sorders, slines |-> slines],
                     orders, create_missing, cost_method, ord)
       IN /\ items' = db.items
          /\ sorders' = db.sorders
          /\ slines' = db.slines
    /\ UNCHANGED <<audit_log, sale_requests, sales_requests, daily_metrics, sku_metrics_daily, requests, sale_items, sales, today, pos, plines, resolved>>

---------------------------------------------------------------------------
(* Sales: the import handler step by step, one transaction per request *)

\* The position of a sales import: pc is the point the handler has reached,
\* pending the orders of the payload still to process, own_items, own_orders
\* and own_lines the rows the open transaction has written (a line's
\* sales_order_id counts within own_orders), created_orders the handler's
\* counter and response what the finished request returned.
SalesRequest(pc, pending, create_missing, cost_method, own_items, own_orders, own_lines, created_orders, response) ==
    [pc |-> pc, pending |-> pending, create_missing |-> create_missing,
     cost_method |-> cost_method, own_items |-> own_items,
     own_orders |-> own_orders, own_lines |-> own_lines,
     created_orders |-> created_orders, response |-> response]

SalesIdle(response, created_orders) ==
    SalesRequest("idle", <<>>, FALSE, "", <<>>, <<>>, <<>>, created_orders, response)

\* What the queries of request r see: the committed rows and its own.
SalesView(r) ==
    LET q == sales_requests[r]
    IN [items |-> items @@ q.own_items,
        sorders |-> sorders \o q.own_orders,
        slines |-> slines \o
            [k \in 1..Len(q.own_lines) |->
                [q.own_lines[k] EXCEPT !.sales_order_id = @ + Len(sorders)]]]

\* import_commit is entered with the payload of the batch.
sales_import_begin(r, orders, create_missing, cost_method) ==
    /\ sales_requests[r].pc = "idle"
    /\ sales_requests' = [sales_requests EXCEPT ![r] =
           SalesRequest("loop", orders, create_missing, cost_method,
                        <<>>, <<>>, <<>>, 0, "none")]
    /\ UNCHANGED <<audit_log, sale_requests, today, items, pos, plines, sorders, slines, resolved,
                   sale_items, sales, requests, daily_metrics,
                   sku_metrics_daily>>

\* The head of the loop without the lookup of the stored order.
sales_import_checkNoLookup(r) ==
    LET q == sales_requests[r]
        o == Head(q.pending)
    IN /\ q.pc = "loop"
       /\ q.pending # <<>>
       /\ sales_requests' = [sales_requests EXCEPT ![r] =
              IF o.order_number = ""
              THEN [q EXCEPT !.pending = Tail(q.pending)]
              ELSE [q EXCEPT !.pc = "flush"]]
       /\ UNCHANGED <<audit_log, sale_requests, today, items, pos, plines, sorders, slines, resolved,
                      sale_items, sales, requests, daily_metrics,
                      sku_metrics_daily>>

\* The head of the loop: an order without number or already stored is
\* skipped.
sales_import_check(r) ==
    LET q == sales_requests[r]
        o == Head(q.pending)
        v == SalesView(r)
        existing == \E k \in 1..Len(v.sorders) :
                       /\ v.sorders[k].channel = o.channel
                       /\ v.sorders[k].order_number = o.order_number
    IN /\ q.pc = "loop"
       /\ q.pending # <<>>
       /\ sales_requests' = [sales_requests EXCEPT ![r] =
              IF o.order_number = "" \/ existing
              THEN [q EXCEPT !.pending = Tail(q.pending)]
              ELSE [q EXCEPT !.pc = "flush"]]
       /\ UNCHANGED <<audit_log, sale_requests, today, items, pos, plines, sorders, slines, resolved,
                      sale_items, sales, requests, daily_metrics,
                      sku_metrics_daily>>

\* The INSERT of request r waits while another open transaction holds a row
\* with the same unique key: the order's (channel, order_number) or the SKU
\* of an item the order creates.
SalesInsertWaits(r) ==
    LET q == sales_requests[r]
        o == Head(q.pending)
    IN \E x \in RequestIds \ {r} :
          \/ \E k \in 1..Len(sales_requests[x].own_orders) :
                /\ sales_requests[x].own_orders[k].channel = o.channel
                /\ sales_requests[x].own_orders[k].order_number = o.order_number
          \/ \E k \in 1..Len(o.lines) :
                /\ o.lines[k].sku \in DOMAIN sales_requests[x].own_items
                /\ o.lines[k].sku \notin DOMAIN items

\* The open transaction of request q after the order at the head of its
\* payload went through the loop body: db is what its queries see then, of
\* which n_orders orders and n_lines lines are stored or were its own.
SalesOwnRows(q, db, n_orders, n_lines) ==
    [q EXCEPT
        !.pc = "loop",
        !.pending = Tail(q.pending),
        !.own_items = [sku \in DOMAIN db.items \ DOMAIN items |-> db.items[sku]],
        !.own_orders = Append(@, db.sorders[Len(db.sorders)]),
        !.own_lines = @ \o
            [k \in 1..(Len(db.slines) - n_lines) |->
                [db.slines[n_lines + k] EXCEPT !.sales_order_id = @ - n_orders]],
        !.created_orders = @ + 1]

\* The flush of the order committing the session as well.
sales_import_flushCommitting(r, ord) ==
    LET q == sales_requests[r]
        o == Head(q.pending)
        v == SalesView(r)
        db == sales_import_orders(pos, plines, v, <<o>>, q.create_missing,
                                  q.cost_method, ord)
    IN /\ q.pc = "flush"
       /\ ~SalesInsertWaits(r)
       /\ items' = db.items
       /\ sorders' = db.sorders
       /\ slines' = db.slines
       /\ sales_requests' = [sales_requests EXCEPT ![r] =
              [q EXCEPT !.pc = "loop", !.pending = Tail(q.pending),
                        !.own_items = <<>>, !.own_orders = <<>>,
                        !.own_lines = <<>>, !.created_orders = @ + 1]]
       /\ UNCHANGED <<audit_log, sale_requests, today, pos, plines, resolved, sale_items, sales,
                      requests, daily_metrics, sku_metrics_daily>>

\* db.session.add(so); db.session.flush() and the two loops over the
\* order's lines: the unique constraint rejects an order stored since the
\* check and the request ends with nothing committed; else the order, its
\* lines and the items created join the open transaction.
sales_import_flush(r, ord) ==
    LET q == sales_requests[r]
        o == Head(q.pending)
        stored == \E k \in 1..Len(sorders) :
                     /\ sorders[k].channel = o.channel
                     /\ sorders[k].order_number = o.order_number
    IN /\ q.pc = "flush"
       /\ ~SalesInsertWaits(r)
       /\ sales_requests' = [sales_requests EXCEPT ![r] =
              IF stored THEN SalesIdle("failed", q.created_orders)
              ELSE SalesOwnRows(q,
                       sales_import_orders(pos, plines, SalesView(r), <<o>>,
                                           q.create_missing, q.cost_method, ord),
                       Len(sorders), Len(slines) + Len(q.own_lines))]
       /\ UNCHANGED <<audit_log, sale_requests, today, items, pos, plines, sorders, slines, resolved,
                      sale_items, sales, requests, daily_metrics,
                      sku_metrics_daily>>

\* db.session.commit() after the loop: the rows of the transaction are
\* stored together.
sales_import_finish(r) ==
    LET q == sales_requests[r]
        v == SalesView(r)
    IN /\ q.pc = "loop"
       /\ q.pending = <<>>
       /\ items' = v.items
       /\ sorders' = v.sorders
       /\ slines' = v.slines
       /\ sales_requests' = [sales_requests EXCEPT ![r] =
              SalesIdle("committed", q.created_orders)]
       /\ UNCHANGED <<audit_log, sale_requests, today, pos, plines, resolved, sale_items, sales,
                      requests, daily_metrics, sku_metrics_daily>>

\* A statement of the handler raises (the victim of a deadlock between two
\* waiting INSERTs, a lost connection): the request ends before its
\* commit and the session is discarded with the transaction.
sales_import_fail(r) ==
    /\ sales_requests[r].pc # "idle"
    /\ sales_requests' = [sales_requests EXCEPT ![r] =
           SalesIdle("failed", sales_requests[r].created_orders)]
    /\ UNCHANGED <<audit_log, sale_requests, today, items, pos, plines, sorders, slines, resolved,
                   sale_items, sales, requests, daily_metrics,
                   sku_metrics_daily>>

---------------------------------------------------------------------------
(* Single-item sales: the position of a request *)

\* op is the handler, pc the point it has reached, id the path parameter
\* (an item for a sell, a Sale for an edit or a reverse), item and sale the
\* rows as the handler loaded them, price the selling price of the request
\* and response what the finished request returned.
SaleRequest(op, pc, id, item, sale, price, response) ==
    [op |-> op, pc |-> pc, id |-> id, item |-> item, sale |-> sale,
     price |-> price, response |-> response]

SaleIdle(response) == SaleRequest("idle", "idle", 0, None, None, 0, response)

---------------------------------------------------------------------------
(* The freight specification: purchase imports and cost edits *)

EmptyTable == <<>>

Init ==
    /\ today = 1
    /\ items = EmptyTable
    /\ pos = EmptyTable
    /\ plines = EmptyTable
    /\ sorders = EmptyTable
    /\ slines = EmptyTable
    /\ resolved = None
    /\ sale_items = EmptyTable
    /\ sales = EmptyTable
    /\ requests = [r \in RequestIds |-> Idle]
    /\ daily_metrics = EmptyTable
    /\ sku_metrics_daily = EmptyTable
    /\ sales_requests = [r \in RequestIds |-> SalesIdle("none", 0)]
    /\ audit_log = EmptyTable
    /\ sale_requests = [r \in RequestIds |-> SaleIdle("none")]

\* Sequences over S of length 0..n.
SeqUpTo(S, n) == UNION {[1..k -> S] : k \in 0..n}

\* Imported purchase lines: quantity text and costs as the CSV carries them
\* (the import accepts zero and negative quantities and costs).
FreightLineInputs ==
    { [sku |-> "A", qty |-> 30, unit_cost_net |-> 2, packaging_per_unit |-> 0],
      [sku |-> "A", qty |-> 10, unit_cost_net |-> 5, packaging_per_unit |-> 1],
      [sku |-> "A", qty |-> 0,  unit_cost_net |-> 3, packaging_per_unit |-> 0],
      [sku |-> "B", qty |-> 3,  unit_cost_net |-> 0, packaging_per_unit |-> 2],
      [sku |-> "B", qty |-> 1,  unit_cost_net |-> -4, packaging_per_unit |-> 0],
      [sku |-> "B", qty |-> -1, unit_cost_net |-> 4, packaging_per_unit |-> 0] }

\* Freight totals: absent, negative, zero, 40.00.
FreightInputs == {None, Some(-100), Some(0), Some(400000)}

Methods == {"value", "qty"}

FreightOrders ==
    { [order_date |-> None, arrival_date |-> None, freight_total |-> f,
       allocation_method |-> "value", lines |-> ls] :
          f \in FreightInputs, ls \in SeqUpTo(FreightLineInputs, MaxLines) }

\* The model's cap on the size of the purchase tables.
PurchaseRoom(orders) ==
    /\ Len(pos) + Len(orders) <= Cardinality(PurchaseOrderIds)
    /\ \A i \in 1..Len(orders) : Len(plines) + Len(orders[i].lines) <= MaxLines

PurchaseImport ==
    \E o \in FreightOrders :
        PurchaseRoom(<<o>>) /\ purchase_import_commit(<<o>>, TRUE)

EditCosts ==
    \E id \in PurchaseOrderIds, f \in FreightInputs, m \in Methods : edit_costs(id, f, m)

Next == PurchaseImport \/ EditCosts

Spec == Init /\ [][Next]_vars

---------------------------------------------------------------------------
(* Claims about freight allocation *)

Abs(x) == IF x < 0 THEN -x ELSE x

RECURSIVE SumSeq(_)
SumSeq(s) == IF s = <<>> THEN 0 ELSE Head(s) + SumSeq(Tail(s))

\* The rows of purchase_lines owned by order id, in id order.
LinesOfOrder(id) == SelectSeq(plines, LAMBDA l : l.purchase_order_id = id)

\* Allocation weight of a line as the specification states it.
Weight(po, ln) ==
    IF po.allocation_method = "qty" THEN ln.qty ELSE ln.unit_cost_net * ln.qty

TotalWeight(id) ==
    LET ls == LinesOfOrder(id)
    IN SumSeq([i \in 1..Len(ls) |-> Weight(pos[id], ls[i])])

TotalAllocated(id) ==
    LET ls == LinesOfOrder(id)
    IN SumSeq([i \in 1..Len(ls) |-> OrZero(ls[i].freight_allocated_total)])

HasFreight(id) == pos[id].freight_total # None /\ pos[id].freight_total[1] > 0

\* C1: every purchase line satisfies
\* landed_unit_cost = unit_cost_net + freight_allocated_per_unit + packaging_per_unit
\* (null packaging counting as 0), after any sequence of imports and cost edits.
LandedCostIdentity ==
    \A i \in 1..Len(plines) :
        /\ plines[i].landed_unit_cost # None
        /\ plines[i].freight_allocated_per_unit # None
        /\ plines[i].landed_unit_cost[1] =
               plines[i].unit_cost_net + plines[i].freight_allocated_per_unit[1]
               + OrZero(plines[i].packaging_per_unit)

\* C1 witness: an order with freight under the qty method holding a line with a
\* per-unit freight that needed rounding next to a zero-quantity line.
LandedCostIdentityWitness ==
    \E id \in 1..Len(pos) :
        /\ HasFreight(id)
        /\ pos[id].allocation_method = "qty"
        /\ \E i, j \in 1..Len(plines) :
              /\ plines[i].purchase_order_id = id
              /\ plines[j].purchase_order_id = id
              /\ plines[i].qty = 0
              /\ plines[j].qty > 1
              /\ plines[j].freight_allocated_per_unit # None
              /\ plines[j].freight_allocated_per_unit[1] * plines[j].qty
                     # OrZero(plines[j].freight_allocated_total)

\* An order all of whose lines carry a non-negative quantity and unit cost.
PlainOrder(id) ==
    \A i \in 1..Len(plines) :
        plines[i].purchase_order_id = id
        => plines[i].qty >= 0 /\ plines[i].unit_cost_net >= 0

\* C2 as stated: with freight_total > 0 and some line with qty > 0 the
\* allocated totals add up to freight_total within one cent (100 units) per line (read
\* here on orders without negative quantities or costs, where it fails already).
FreightConservation ==
    \A id \in 1..Len(pos) :
        (/\ HasFreight(id)
         /\ PlainOrder(id)
         /\ \E i \in 1..Len(plines) :
               plines[i].purchase_order_id = id /\ plines[i].qty > 0)
        => Abs(TotalAllocated(id) - pos[id].freight_total[1])
               <= 100 * Len(LinesOfOrder(id))

\* C2 amended: the same, provided the order's allocation weights sum to more
\* than zero.
FreightConservationPositiveWeights ==
    \A id \in 1..Len(pos) :
        (/\ HasFreight(id)
         /\ \E i \in 1..Len(plines) :
               plines[i].purchase_order_id = id /\ plines[i].qty > 0
         /\ TotalWeight(id) > 0)
        => Abs(TotalAllocated(id) - pos[id].freight_total[1])
               <= 100 * Len(LinesOfOrder(id))

\* C2 witness: the second of two orders holds freight, shared between two
\* lines in parts that needed rounding.
FreightConservationWitness ==
    /\ Len(pos) = 2
    /\ \E id \in {2} :
          /\ HasFreight(id)
          /\ Len(LinesOfOrder(id)) = 2
          /\ TotalWeight(id) > 0
          /\ \E i \in 1..Len(plines) :
                /\ plines[i].purchase_order_id = id
                /\ plines[i].qty > 0
                /\ OrZero(plines[i].freight_allocated_total) * TotalWeight(id)
                       # pos[id].freight_total[1] * Weight(pos[id], plines[i])

\* A stored share a is the quotient n/d rounded to the storage grid.
IsRounded(a, n, d) == 2 * Abs(a * d - n) <= Abs(d)

\* C3 as stated: with freight_total > 0 each line holds
\* freight_total * weight / total weight, and 0 when the total weight is 0
\* (read here on orders without negative quantities, where it fails already).
FreightProportional ==
    \A i \in 1..Len(plines) :
        LET id == plines[i].purchase_order_id
            W  == TotalWeight(id)
            a  == OrZero(plines[i].freight_allocated_total)
        IN (HasFreight(id) /\ \A j \in 1..Len(plines) :
                                 plines[j].purchase_order_id = id => plines[j].qty >= 0)
           =>
             IF W = 0 THEN a = 0
             ELSE IsRounded(a, pos[id].freight_total[1] * Weight(pos[id], plines[i]), W)

\* C3 amended: the same with 0 for every line when the total weight is zero
\* or negative.
FreightProportionalPositiveWeights ==
    \A i \in 1..Len(plines) :
        LET id == plines[i].purchase_order_id
            W  == TotalWeight(id)
            a  == OrZero(plines[i].freight_allocated_total)
        IN HasFreight(id) =>
             IF W <= 0 THEN a = 0
             ELSE IsRounded(a, pos[id].freight_total[1] * Weight(pos[id], plines[i]), W)

\* C3 example: qty 30 and qty 10, freight 40.00, qty method give 30.00 and 10.00.
FreightQuantityExample ==
    \A id \in 1..Len(pos) :
        LET ls == LinesOfOrder(id)
        IN (/\ pos[id].freight_total = Some(400000)
            /\ pos[id].allocation_method = "qty"
            /\ Len(ls) = 2 /\ ls[1].qty = 30 /\ ls[2].qty = 10)
           => /\ ls[1].freight_allocated_total = Some(300000)
              /\ ls[2].freight_allocated_total = Some(100000)

FreightProportionalAmended ==
    FreightProportionalPositiveWeights /\ FreightQuantityExample

\* C3 witness: the example order.
FreightProportionalWitness ==
    \E id \in 1..Len(pos) :
        LET ls == LinesOfOrder(id)
        IN /\ pos[id].freight_total = Some(400000)
           /\ pos[id].allocation_method = "qty"
           /\ Len(ls) = 2 /\ ls[1].qty = 30 /\ ls[2].qty = 10
           /\ ls[1].freight_allocated_total = Some(300000)

\* C4: an order whose freight_total is null, zero or negative has allocated
\* freight 0 (total and per unit) on every line and
\* landed_unit_cost = unit_cost_net + packaging_per_unit, under either method.
ZeroFreight ==
    \A i \in 1..Len(plines) :
        ~HasFreight(plines[i].purchase_order_id) =>
            /\ plines[i].freight_allocated_total = Some(0)
            /\ plines[i].freight_allocated_per_unit = Some(0)
            /\ plines[i].landed_unit_cost =
                   Some(plines[i].unit_cost_net + OrZero(plines[i].packaging_per_unit))

\* C4 witness: an order edited to the qty method and a negative freight total,
\* with a line, next to an order that holds allocated freight.
ZeroFreightWitness ==
    \E id, other \in 1..Len(pos) :
        /\ pos[id].freight_total # None
        /\ pos[id].freight_total[1] < 0
        /\ pos[id].allocation_method = "qty"
        /\ LinesOfOrder(id) # <<>>
        /\ HasFreight(other)
        /\ TotalAllocated(other) > 0

\* C5: recalculating any order again, with nothing else changed, leaves the
\* purchase lines as they are.
RecalcIdempotent ==
    \A id \in 1..Len(pos) : recalc_allocations(plines, pos[id], id) = plines

\* C5 witness: an order with freight under the value method whose lines hold
\* allocated freight.
RecalcIdempotentWitness ==
    \E id \in 1..Len(pos) :
        /\ HasFreight(id)
        /\ pos[id].allocation_method = "value"
        /\ Len(LinesOfOrder(id)) = 2
        /\ \A i \in 1..Len(plines) :
              plines[i].purchase_order_id = id
              => OrZero(plines[i].freight_allocated_per_unit) > 0

---------------------------------------------------------------------------
(* The cost-basis specification: purchase history, then cost-basis calls on *)
(* the unchanged history                                                    *)

\* Imported lines: SKU A at 5.00, 7.00 and 9.00, a zero-quantity line, SKU B.
CostLineInputs ==
    { [sku |-> "A", qty |-> 10, unit_cost_net |-> 50000, packaging_per_unit |-> 0],
      [sku |-> "A", qty |-> 10, unit_cost_net |-> 70000, packaging_per_unit |-> 0],
      [sku |-> "A", qty |-> 3,  unit_cost_net |-> 90000, packaging_per_unit |-> 0],
      [sku |-> "A", qty |-> 0,  unit_cost_net |-> 40000, packaging_per_unit |-> 0],
      [sku |-> "B", qty |-> 3,  unit_cost_net |-> 20000, packaging_per_unit |-> 100] }

\* The dates of an imported order: an arrival date, only an order date, both,
\* or neither.
CostOrderDates ==
    {<<Some(d), None>> : d \in Dates}
    \cup {<<None, Some(2)>>, <<Some(MaxDate), Some(1)>>, <<None, None>>}

CostOrders ==
    { [order_date |-> dd[2], arrival_date |-> dd[1], freight_total |-> None,
       allocation_method |-> "value", lines |-> <<ln>>] :
          dd \in CostOrderDates, ln \in CostLineInputs }

CostMethods == {"weighted_avg", "last", ""}

CostPurchaseImport ==
    /\ resolved = None
    /\ \E o \in CostOrders :
          PurchaseRoom(<<o>>) /\ purchase_import_commit(<<o>>, TRUE)

ResolveCostBasis ==
    \E sku \in SKUs, d \in Dates, m \in CostMethods,
       ord \in Permutations(1..Len(plines)) :
          resolve_cost_basis(sku, Some(d), m, ord)

NextCost == CostPurchaseImport \/ ResolveCostBasis

SpecCost == Init /\ [][NextCost]_vars

---------------------------------------------------------------------------
(* Claims about the cost basis *)

\* Effective date of the order that owns purchase line i: arrival date, else
\* order date, else the day the order was created.
EffectiveDate(i) ==
    LET po == pos[plines[i].purchase_order_id]
    IN IF po.arrival_date # None THEN po.arrival_date[1]
       ELSE IF po.order_date # None THEN po.order_date[1]
       ELSE po.created_at[1]

LandedCost(i) == plines[i].landed_unit_cost[1]

\* The purchase lines of a SKU that count: qty > 0.
Qualifying(sku) ==
    {i \in 1..Len(plines) : plines[i].sku = sku /\ plines[i].qty > 0}

OnOrBefore(sku, d) == {i \in Qualifying(sku) : EffectiveDate(i) <= d}

Candidates(sku, d) ==
    IF OnOrBefore(sku, d) # {} THEN OnOrBefore(sku, d) ELSE Qualifying(sku)

RECURSIVE SumQty(_)
SumQty(S) ==
    IF S = {} THEN 0
    ELSE LET i == CHOOSE x \in S : TRUE IN plines[i].qty + SumQty(S \ {i})

RECURSIVE SumQtyCost(_)
SumQtyCost(S) ==
    IF S = {} THEN 0
    ELSE LET i == CHOOSE x \in S : TRUE
         IN plines[i].qty * LandedCost(i) + SumQtyCost(S \ {i})

\* The basis b is the quantity-weighted mean landed cost of the lines S, with
\* no source order.
IsAverageOver(b, S) ==
    /\ b.den > 0
    /\ b.num * SumQty(S) = b.den * SumQtyCost(S)
    /\ b.po = None

\* The basis b is the landed cost and the order of a line of S with the
\* greatest effective date in S.
IsLastOver(b, S) ==
    \E i \in S :
        /\ \A j \in S : EffectiveDate(j) <= EffectiveDate(i)
        /\ b.num = LandedCost(i) * b.den
        /\ b.den > 0
        /\ b.po = Some(plines[i].purchase_order_id)

\* The history of the examples: SKU A bought at 5.00 on day early and at 7.00
\* on day late, ten units each, and nothing else of SKU A.
ExampleHistory(early, late) ==
    \E i, j \in Qualifying("A") :
        /\ Qualifying("A") = {i, j}
        /\ EffectiveDate(i) = early /\ plines[i].qty = 10 /\ LandedCost(i) = 50000
        /\ EffectiveDate(j) = late /\ plines[j].qty = 10 /\ LandedCost(j) = 70000

Asked(sku, d, methods) ==
    /\ resolved # None
    /\ resolved[1].sku = sku
    /\ resolved[1].sale_date = Some(d)
    /\ resolved[1].method \in methods

\* C8: under weighted_avg, and when no method is given, the result is the sum
\* of qty * cost over the sum of qty over the candidate lines, with no source
\* order; purchases of day 1 (5.00) and day 3 (7.00), ten units each, give 6.00
\* for a sale on day 4.
WeightedAverage ==
    /\ \A sku \in SKUs, d \in Dates :
          (Asked(sku, d, {"weighted_avg", ""}) /\ Candidates(sku, d) # {})
          => IsAverageOver(resolved[1].basis, Candidates(sku, d))
    /\ (Asked("A", 4, {"weighted_avg", ""}) /\ ExampleHistory(1, 3))
       => resolved[1].basis.num = 60000 * resolved[1].basis.den

\* C8 witness: the example, asked with no method given.
WeightedAverageWitness ==
    /\ Asked("A", 4, {""})
    /\ ExampleHistory(1, 3)
    /\ resolved[1].basis.num = 60000 * resolved[1].basis.den
    /\ resolved[1].basis.po = None

\* C9: under last the result is the landed cost of a candidate line with the
\* greatest effective date, and the order that owns it; in the example a sale on
\* day 4 gives 7.00 and the order of day 3.
LastCost ==
    /\ \A sku \in SKUs, d \in Dates :
          (Asked(sku, d, {"last"}) /\ Candidates(sku, d) # {})
          => IsLastOver(resolved[1].basis, Candidates(sku, d))
    /\ (Asked("A", 4, {"last"}) /\ ExampleHistory(1, 3))
       => /\ resolved[1].basis.num = 70000 * resolved[1].basis.den
          /\ resolved[1].basis.po # None
          /\ pos[resolved[1].basis.po[1]].arrival_date = Some(3)

\* C9 witness: the example with the later purchase stored first.
LastCostWitness ==
    /\ Asked("A", 4, {"last"})
    /\ ExampleHistory(1, 3)
    /\ resolved[1].basis = Basis(70000, 1, Some(1))

\* C10: when some qualifying line of the SKU has an effective date on or before
\* the sale date, the result is the one computed from those lines alone, a
\* line of the sale date itself included; in the example a sale on day 2 under
\* last gives 5.00.
TemporalBoundary ==
    /\ \A sku \in SKUs, d \in Dates :
          (resolved # None /\ OnOrBefore(sku, d) # {})
          => /\ Asked(sku, d, {"last"})
                => IsLastOver(resolved[1].basis, OnOrBefore(sku, d))
             /\ Asked(sku, d, {"weighted_avg", ""})
                => IsAverageOver(resolved[1].basis, OnOrBefore(sku, d))
    /\ (Asked("A", 2, {"last"}) /\ ExampleHistory(1, 3))
       => resolved[1].basis.num = 50000 * resolved[1].basis.den

\* C10 witness: a purchase at 5.00 on the sale date itself and one at 7.00
\* after it; last gives 5.00.
TemporalBoundaryWitness ==
    /\ Asked("A", 2, {"last"})
    /\ ExampleHistory(2, 3)
    /\ resolved[1].basis.num = 50000 * resolved[1].basis.den

ReferentiallyTransparent ==
    resolved # None
    => \A ord \in Permutations(1..Len(plines)) :
          compute_unit_cost_basis(pos, plines, resolved[1].sku,
                                  RowsFor(plines, ord, resolved[1].sku),
                                  resolved[1].sale_date, resolved[1].method)
              = resolved[1].basis

---------------------------------------------------------------------------
(* Single-item sales (app/api/sales.py, app/routes/sales.py) *)

\* Decimal.quantize(Decimal("0.01")) under the default context, which rounds
\* half to even: n/d cents (d > 0) to a whole number of cents.
RoundHalfEven(n, d) ==
    LET q == n \div d
        r == n - q * d
    IN IF 2 * r < d THEN q
       ELSE IF 2 * r > d THEN q + 1
       ELSE IF q % 2 = 0 THEN q ELSE q + 1

\* compute_snapshots(gross_price, vat_rate, total_cost_net): _q2 rounds half
\* up; vat_amt and profit are differences of cent amounts.
compute_snapshots(gross_price, vat_rate, total_cost_net) ==
    LET net_rev == RoundDiv(gross_price * 10000, 10000 + vat_rate)
    IN [net_revenue |-> net_rev,
        vat_amount  |-> gross_price - net_rev,
        profit      |-> net_rev - total_cost_net]

\* calculate_sale_metrics: net revenue, VAT amount and profit are computed
\* unrounded and each is quantized on its own.
calculate_sale_metrics(selling_price_gross, vat_rate, total_costs) ==
    LET n == selling_price_gross * 10000
        d == 10000 + vat_rate
    IN [net_revenue |-> RoundHalfEven(n, d),
        vat_amount  |-> RoundHalfEven(selling_price_gross * d - n, d),
        profit      |-> RoundHalfEven(n - total_costs * d, d)]

\* An audit_log row.
AuditEntry(entity_type, entity_pk_id, action, field) ==
    [entity_type |-> entity_type, entity_pk_id |-> entity_pk_id,
     action |-> action, field_name |-> field]

\* The primary keys Sale rows have had so far.
SalePksUsed ==
    {sales[k].pk_id : k \in 1..Len(sales)}
    \cup {audit_log[k].entity_pk_id :
             k \in {j \in 1..Len(audit_log) : audit_log[j].entity_type = "SALE"}}

\* The primary key of a new Sale: one no Sale has had.
NewSalePk ==
    IF SalePksUsed = {} THEN 1
    ELSE 1 + CHOOSE m \in SalePksUsed : \A x \in SalePksUsed : x <= m

\* The Sale row a sell handler builds.
SaleRow(pk, id, gross, m, via) ==
    [pk_id |-> pk,
     item_pk_id |-> id,
     item_selling_price_gross |-> gross,
     item_net_revenue |-> m.net_revenue,
     item_vat_amount |-> m.vat_amount,
     item_profit |-> m.profit,
     via |-> via]

\* The audit rows of a sell: create_sale audits the Sale and the item's
\* status, items_sell the Sale.
SellAudit(pk, id, via) ==
    IF via = "create_sale"
    THEN <<AuditEntry("SALE", pk, "CREATE", None),
           AuditEntry("ITEM", id, "UPDATE", Some("status"))>>
    ELSE <<AuditEntry("SALE", pk, "CREATE", None)>>

\* The Sale row both handlers add, with its audit rows, and the item marked
\* SOLD.
AddSale(id, gross, m, via) ==
    /\ sales' = Append(sales, SaleRow(NewSalePk, id, gross, m, via))
    /\ sale_items' = [sale_items EXCEPT ![id].status = "SOLD"]
    /\ audit_log' = audit_log \o SellAudit(NewSalePk, id, via)
    /\ UNCHANGED <<sale_requests, sales_requests, daily_metrics,
                   sku_metrics_daily, requests, today, items, pos, plines,
                   sorders, slines, resolved>>

\* create_sale (POST /api/items/<id>/sale) with the optional costs left out.
create_sale(id, gross) ==
    /\ id \in DOMAIN sale_items
    /\ sale_items[id].status = "IN_STOCK"
    /\ AddSale(id, gross,
               compute_snapshots(gross, sale_items[id].vat_rate,
                                 sale_items[id].net_unit_cost
                                     + sale_items[id].freight_net),
               "create_sale")

\* items_sell (POST /items/<id>/sell) with the optional costs left out: an
\* item whose cost, freight or VAT rate is 0 is refused as incomplete.
items_sell(id, selling_price) ==
    /\ id \in DOMAIN sale_items
    /\ sale_items[id].status # "SOLD"
    /\ sale_items[id].net_unit_cost # 0
    /\ sale_items[id].freight_net # 0
    /\ sale_items[id].vat_rate # 0
    /\ selling_price > 0
    /\ AddSale(id, selling_price,
               calculate_sale_metrics(selling_price, sale_items[id].vat_rate,
                                      sale_items[id].net_unit_cost
                                          + sale_items[id].freight_net),
               "items_sell")

\* The handlers step by step: the rows are loaded in one transaction's
\* reads and written at the commit; the unit of work writes an attribute
\* only when the value set differs from the value loaded.

\* db.session.get(Item, pk_id) of items_sell and create_sale.
sale_load_item(r, op, id, price) ==
    /\ sale_requests[r].pc = "idle"
    /\ id \in DOMAIN sale_items
    /\ sale_requests' = [sale_requests EXCEPT ![r] =
           SaleRequest(op, "loaded", id, Some(sale_items[id]), None, price,
                       "none")]
    /\ UNCHANGED <<today, items, pos, plines, sorders, slines, resolved,
                   sale_items, sales, requests, daily_metrics,
                   sku_metrics_daily, sales_requests, audit_log>>

\* db.session.get(Sale, pk_id) and db.session.get(Item, sale.item_pk_id) of
\* the edit and reverse handlers.
sale_load_sale(r, op, pk, price) ==
    /\ sale_requests[r].pc = "idle"
    /\ \E k \in 1..Len(sales) :
          /\ sales[k].pk_id = pk
          /\ sale_requests' = [sale_requests EXCEPT ![r] =
                 SaleRequest(op, "loaded", pk,
                             Some(sale_items[sales[k].item_pk_id]),
                             Some(sales[k]), price, "none")]
    /\ UNCHANGED <<today, items, pos, plines, sorders, slines, resolved,
                   sale_items, sales, requests, daily_metrics,
                   sku_metrics_daily, sales_requests, audit_log>>

\* The request ends with an error response and nothing written.
SaleRefused(r) ==
    /\ sale_requests' = [sale_requests EXCEPT ![r] = SaleIdle("error")]
    /\ UNCHANGED <<today, items, pos, plines, sorders, slines, resolved,
                   sale_items, sales, requests, daily_metrics,
                   sku_metrics_daily, sales_requests, audit_log>>

\* The snapshots the handler op computes for a price on the loaded item.
SaleMetrics(op, price, item) ==
    IF op \in {"items_sell", "sales_edit"}
    THEN calculate_sale_metrics(price, item.vat_rate,
                                item.net_unit_cost + item.freight_net)
    ELSE compute_snapshots(price, item.vat_rate,
                           item.net_unit_cost + item.freight_net)

\* The rest of items_sell and create_sale: the checks on the loaded item
\* and the price, the Sale inserted under the unique constraint on
\* item_pk_id, the item marked SOLD, the audit rows, the commit.
sell_commit(r) ==
    LET q == sale_requests[r]
        item == q.item[1]
        refused == IF q.op = "items_sell"
                   THEN \/ item.status = "SOLD"
                        \/ item.net_unit_cost = 0
                        \/ item.freight_net = 0
                        \/ item.vat_rate = 0
                        \/ q.price <= 0
                   ELSE item.status # "IN_STOCK"
        taken == \E k \in 1..Len(sales) : sales[k].item_pk_id = q.id
    IN /\ q.pc = "loaded"
       /\ q.op \in {"items_sell", "create_sale"}
       /\ IF refused \/ taken THEN SaleRefused(r)
          ELSE /\ sales' = Append(sales,
                       SaleRow(NewSalePk, q.id, q.price,
                               SaleMetrics(q.op, q.price, item), q.op))
               /\ sale_items' = [sale_items EXCEPT ![q.id].status =
                       Flushed(@, item.status, "SOLD")]
               /\ audit_log' = audit_log \o SellAudit(NewSalePk, q.id, q.op)
               /\ sale_requests' = [sale_requests EXCEPT ![r] = SaleIdle("ok")]
               /\ UNCHANGED <<today, items, pos, plines, sorders, slines,
                              resolved, requests, daily_metrics,
                              sku_metrics_daily, sales_requests>>

\* The audit rows of an edit: the price when it changes; update_sale also
\* audits each snapshot that changes.
EditAudit(op, loaded, set) ==
    LET entry(f) == IF loaded[f] # set[f]
                    THEN <<AuditEntry("SALE", loaded.pk_id, "UPDATE", Some(f))>>
                    ELSE <<>>
    IN entry("item_selling_price_gross")
       \o (IF op = "update_sale"
           THEN entry("item_net_revenue") \o entry("item_vat_amount")
                \o entry("item_profit")
           ELSE <<>>)

\* The rest of sales_edit and update_sale: sales_edit refuses a price that
\* is not positive; the price and the recomputed snapshots are set on the
\* loaded Sale; the UPDATE of a row deleted since the load fails.
edit_commit(r) ==
    LET q == sale_requests[r]
        item == q.item[1]
        loaded == q.sale[1]
        m == SaleMetrics(q.op, q.price, item)
        set == [loaded EXCEPT !.item_selling_price_gross = q.price,
                              !.item_net_revenue = m.net_revenue,
                              !.item_vat_amount = m.vat_amount,
                              !.item_profit = m.profit]
        at == {k \in 1..Len(sales) : sales[k].pk_id = loaded.pk_id}
    IN /\ q.pc = "loaded"
       /\ q.op \in {"sales_edit", "update_sale"}
       /\ IF (q.op = "sales_edit" /\ q.price <= 0) \/ (set # loaded /\ at = {})
          THEN SaleRefused(r)
          ELSE /\ sales' = [k \in 1..Len(sales) |->
                              IF k \in at
                              THEN [f \in DOMAIN sales[k] |->
                                       Flushed(sales[k][f], loaded[f], set[f])]
                              ELSE sales[k]]
               /\ audit_log' = audit_log \o EditAudit(q.op, loaded, set)
               /\ sale_requests' = [sale_requests EXCEPT ![r] = SaleIdle("ok")]
               /\ UNCHANGED <<today, items, pos, plines, sorders, slines,
                              resolved, sale_items, requests, daily_metrics,
                              sku_metrics_daily, sales_requests>>

\* The audit rows of a reverse: reverse_sale audits the item's status and
\* the Sale, sales_reverse the Sale.
ReverseAudit(op, loaded) ==
    IF op = "reverse_sale"
    THEN <<AuditEntry("ITEM", loaded.item_pk_id, "UPDATE", Some("status")),
           AuditEntry("SALE", loaded.pk_id, "REVERSE_SALE", None)>>
    ELSE <<AuditEntry("SALE", loaded.pk_id, "REVERSE_SALE", None)>>

\* The rest of sales_reverse and reverse_sale: the item set IN_STOCK, the
\* Sale deleted (a DELETE that matches no row is not an error), the audit
\* rows, the commit.
reverse_commit(r) ==
    LET q == sale_requests[r]
        item == q.item[1]
        loaded == q.sale[1]
    IN /\ q.pc = "loaded"
       /\ q.op \in {"sales_reverse", "reverse_sale"}
       /\ sales' = SelectSeq(sales, LAMBDA s : s.pk_id # loaded.pk_id)
       /\ sale_items' = [sale_items EXCEPT ![loaded.item_pk_id].status =
               Flushed(@, item.status, "IN_STOCK")]
       /\ audit_log' = audit_log \o ReverseAudit(q.op, loaded)
       /\ sale_requests' = [sale_requests EXCEPT ![r] = SaleIdle("ok")]
       /\ UNCHANGED <<today, items, pos, plines, sorders, slines, resolved,
                      requests, daily_metrics, sku_metrics_daily,
                      sales_requests>>

---------------------------------------------------------------------------
(* Items (app/api/items.py) *)

\* update_item that also stamps the new VAT rate on the SKU's sales lines.
update_itemRestamping(sku, vat_rate) ==
    /\ sku \in DOMAIN items
    /\ items' = [items EXCEPT ![sku].vat_rate = vat_rate]
    /\ slines' = [i \in 1..Len(slines) |->
                    IF slines[i].sku = sku
                    THEN [slines[i] EXCEPT !.vat_rate = vat_rate]
                    ELSE slines[i]]
    /\ UNCHANGED <<audit_log, sale_requests, sales_requests, daily_metrics, sku_metrics_daily, requests, sale_items, sales, today, pos, plines, sorders, resolved>>

\* update_item with a vat_rate in the request: the item's rate is replaced.
update_item(sku, vat_rate) ==
    /\ sku \in DOMAIN items
    /\ items' = [items EXCEPT ![sku].vat_rate = vat_rate]
    /\ UNCHANGED <<audit_log, sale_requests, sales_requests, daily_metrics, sku_metrics_daily, requests, sale_items, sales, today, pos, plines, sorders, slines, resolved>>

---------------------------------------------------------------------------
(* The sales specification: purchase imports and sales imports *)

\* Imported sales lines (amounts in storage units): plain, with a line
\* discount, with a line discount above the line's gross, with quantity 0.
SalesLineInputs ==
    { [sku |-> "A", qty |-> 1, unit_price_gross |-> 30, line_discount_gross |-> 0],
      [sku |-> "A", qty |-> 2, unit_price_gross |-> 45, line_discount_gross |-> 10],
      [sku |-> "B", qty |-> 1, unit_price_gross |-> 30, line_discount_gross |-> 200],
      [sku |-> "A", qty |-> 0, unit_price_gross |-> 50, line_discount_gross |-> 0] }

\* Order discounts: absent, negative, one cent.
OrderDiscountInputs == {None, Some(-100), Some(100)}

SalesOrderNumbers == {"S1", "S2"}

SalesOrders ==
    { [order_number |-> n, channel |-> "shop", order_date |-> None,
       order_discount_gross |-> d, lines |-> ls] :
          n \in SalesOrderNumbers, d \in OrderDiscountInputs,
          ls \in SeqUpTo(SalesLineInputs, MaxSalesLines) \ {<<>>} }

\* The purchase history of the sales specification: one order of SKU A, two
\* units at 12 + 1 and one at 14 (a weighted average of 40/3, off the storage
\* grid, and two candidates of the same date for last).
SalesPurchaseOrders ==
    { [order_date |-> None, arrival_date |-> Some(1), freight_total |-> None,
       allocation_method |-> "value",
       lines |-> <<[sku |-> "A", qty |-> 2, unit_cost_net |-> 12,
                    packaging_per_unit |-> 1],
                   [sku |-> "A", qty |-> 1, unit_cost_net |-> 14,
                    packaging_per_unit |-> 0]>>] }

\* One purchase import at most: the sales specification needs a SKU with
\* and without purchase history, not the history's variety.
SalesPurchaseImport ==
    /\ pos = EmptyTable
    /\ \E o \in SalesPurchaseOrders :
          PurchaseRoom(<<o>>) /\ purchase_import_commit(<<o>>, TRUE)

SalesImport ==
    \E o \in SalesOrders, create_missing \in BOOLEAN,
       cost_method \in {"weighted_avg", "last"},
       ord \in Permutations(1..Len(plines)) :
          /\ Len(slines) + Len(o.lines) <= MaxSalesLines
          /\ sales_import_commit(<<o>>, create_missing, cost_method, ord)

NextSales == SalesPurchaseImport \/ SalesImport

SpecSales == Init /\ [][NextSales]_vars

---------------------------------------------------------------------------
(* Claims about the order discount *)

\* The rows of sales_lines owned by sales order k, in id order.
SalesLinesOf(k) == SelectSeq(slines, LAMBDA l : l.sales_order_id = k)

\* max(0, unit_price_gross * qty - line_discount_gross) of a stored line.
StoredBase(l) ==
    LET b == l.unit_price_gross * l.qty - OrZero(l.line_discount_gross)
    IN IF b > 0 THEN b ELSE 0

StoredTotalBase(k) ==
    LET ls == SalesLinesOf(k)
    IN SumSeq([i \in 1..Len(ls) |-> StoredBase(ls[i])])

StoredAllocTotal(k) ==
    LET ls == SalesLinesOf(k)
    IN SumSeq([i \in 1..Len(ls) |-> OrZero(ls[i].order_discount_alloc_gross)])

StoredOrderDiscount(k) == OrZero(sorders[k].order_discount_gross)

\* C6: for a sales order with order discount > 0 and total base > 0 the stored
\* allocations add up to the order discount within one storage unit (0.0001)
\* per line, also when the discount exceeds the total base.
DiscountConservation ==
    \A k \in 1..Len(sorders) :
        (StoredOrderDiscount(k) > 0 /\ StoredTotalBase(k) > 0)
        => Abs(StoredAllocTotal(k) - StoredOrderDiscount(k)) <= Len(SalesLinesOf(k))

\* C6 witness: an order of two lines whose discount exceeds its total base, and
\* an order whose shares needed rounding.
DiscountConservationWitness ==
    \/ \E k \in 1..Len(sorders) :
          /\ Len(SalesLinesOf(k)) = 2
          /\ StoredTotalBase(k) > 0
          /\ StoredOrderDiscount(k) > StoredTotalBase(k)
          /\ StoredAllocTotal(k) = StoredOrderDiscount(k)
    \/ \E k \in 1..Len(sorders) :
          LET ls == SalesLinesOf(k)
          IN /\ Len(ls) = 2
             /\ StoredOrderDiscount(k) > 0
             /\ StoredOrderDiscount(k) < StoredTotalBase(k)
             /\ OrZero(ls[1].order_discount_alloc_gross) * StoredTotalBase(k)
                    # StoredOrderDiscount(k) * StoredBase(ls[1])

\* C7: each stored allocation is order_discount_gross * base / total_base
\* (rounded to the column's 4 decimals) with base = max(0, unit_price_gross *
\* qty - line_discount_gross), when the order discount and the total base are
\* > 0, and nothing otherwise.
DiscountAllocation ==
    \A i \in 1..Len(slines) :
        LET k == slines[i].sales_order_id
            D == StoredOrderDiscount(k)
            T == StoredTotalBase(k)
            a == OrZero(slines[i].order_discount_alloc_gross)
        IN IF D > 0 /\ T > 0
           THEN IsRounded(a, D * StoredBase(slines[i]), T)
           ELSE slines[i].order_discount_alloc_gross = None

\* C7 witness: a discounted order with a line whose line discount exceeds its
\* gross (base 0, no allocation) next to a line that takes the whole discount.
DiscountAllocationWitness ==
    \E k \in 1..Len(sorders) :
        LET ls == SalesLinesOf(k)
        IN /\ Len(ls) = 2
           /\ StoredOrderDiscount(k) > 0
           /\ \E i, j \in 1..2 :
                 /\ OrZero(ls[i].line_discount_gross)
                        > ls[i].unit_price_gross * ls[i].qty
                 /\ ls[i].order_discount_alloc_gross = None
                 /\ ls[j].order_discount_alloc_gross = Some(StoredOrderDiscount(k))

---------------------------------------------------------------------------
(* Claims about the margin of a sales line *)

NoPurchaseLines(sku) == \A i \in 1..Len(plines) : plines[i].sku # sku

\* C12: for a SKU with no purchase lines at all _compute_unit_cost_basis
\* returns (0, null) under either method, and a sales line of such a SKU carries
\* unit_cost_basis 0, cost_total 0, no cost source order and a profit equal to
\* its revenue_net.
ZeroHistoryFallback ==
    /\ \A sku \in SKUs, d \in Dates, m \in {"weighted_avg", "last", ""},
          ord \in Permutations(1..Len(plines)) :
          NoPurchaseLines(sku)
          => compute_unit_cost_basis(pos, plines, sku, RowsFor(plines, ord, sku),
                                     Some(d), m) = Basis(0, 1, None)
    /\ \A i \in 1..Len(slines) :
          NoPurchaseLines(slines[i].sku)
          => /\ slines[i].unit_cost_basis = Some(0)
             /\ slines[i].cost_total = Some(0)
             /\ slines[i].cost_source_po_id = None
             /\ slines[i].profit = slines[i].revenue_net

\* C12 witness: a sale of SKU A with revenue, stored when nothing has been
\* purchased, next to a sale of SKU B.
ZeroHistoryFallbackWitness ==
    /\ \E j \in 1..Len(slines) : slines[j].sku = "B"
    /\ \E i \in 1..Len(slines) :
          /\ slines[i].sku = "A"
          /\ NoPurchaseLines("A")
          /\ slines[i].unit_cost_basis = Some(0)
          /\ slines[i].cost_source_po_id = None
          /\ OrZero(slines[i].revenue_net) > 0
          /\ slines[i].profit = slines[i].revenue_net

\* gross_after_all_discounts of stored line i as the exact fraction
\* <<numerator, denominator>>: max(0, base - discount * base / total).
StoredGrossAfter(i) ==
    LET k == slines[i].sales_order_id
        D == StoredOrderDiscount(k)
        T == StoredTotalBase(k)
        b == StoredBase(slines[i])
    IN IF D > 0 /\ T > 0
       THEN (IF T > D THEN Rat(b * (T - D), T) ELSE <<0, 1>>)
       ELSE <<b, 1>>

\* gross / (1 + vat_rate / 100) of stored line i as an exact fraction.
StoredNet(i) ==
    LET g == StoredGrossAfter(i)
    IN Rat(g[1] * 10000, g[2] * (10000 + slines[i].vat_rate))

\* The unit costs _compute_unit_cost_basis can have returned for stored line
\* i: the no-history result when the line was written before the SKU was
\* first purchased, else its result on the purchase history, for some order of
\* the rows.
ResolvedCosts(i) ==
    {Basis(0, 1, None)} \cup
    { compute_unit_cost_basis(pos, plines, slines[i].sku,
                              RowsFor(plines, ord, slines[i].sku),
                              Some(sorders[slines[i].sales_order_id].order_date),
                              slines[i].cost_method) :
          ord \in Permutations(1..Len(plines)) }

\* Row i holds the values computed from the unit cost c, each rounded to the
\* column's 4 decimals: c, c * qty and revenue_net - c * qty.
WrittenWith(i, c) ==
    LET r == StoredNet(i)
        q == slines[i].qty
    IN /\ slines[i].unit_cost_basis = Some(RoundDiv(c.num, c.den))
       /\ slines[i].cost_total = Some(RoundDiv(c.num * q, c.den))
       /\ slines[i].profit =
              Some(RoundDiv(r[1] * c.den - c.num * q * r[2], r[2] * c.den))
       /\ slines[i].cost_source_po_id = c.po

---------------------------------------------------------------------------
(* The snapshot specification: sales imports followed by every operation that
   changes what a sales line was computed from *)

VatRates == {500, 1800}

SnapshotFreightInputs == {None, Some(300)}

SnapshotSalesOrders ==
    { [order_number |-> n, channel |-> "shop", order_date |-> None,
       order_discount_gross |-> d, lines |-> <<ln>>] :
          n \in SalesOrderNumbers, d \in {None, Some(100)},
          ln \in { [sku |-> "A", qty |-> 2, unit_price_gross |-> 45,
                    line_discount_gross |-> 10] } }

SnapshotPurchaseImport ==
    \E o \in SalesPurchaseOrders :
        PurchaseRoom(<<o>>) /\ purchase_import_commit(<<o>>, TRUE)

SnapshotEditCosts ==
    \E id \in PurchaseOrderIds, f \in SnapshotFreightInputs, m \in Methods :
        edit_costs(id, f, m)

SnapshotSalesImport ==
    \E o \in SnapshotSalesOrders, cost_method \in {"weighted_avg", "last"},
       ord \in Permutations(1..Len(plines)) :
          /\ Len(slines) + Len(o.lines) <= MaxSalesLines
          /\ sales_import_commit(<<o>>, TRUE, cost_method, ord)

UpdateItem == \E sku \in SKUs, v \in VatRates : update_item(sku, v)

NextSnapshot ==
    SnapshotPurchaseImport \/ SnapshotEditCosts \/ SnapshotSalesImport \/ UpdateItem

SpecSnapshot == Init /\ [][NextSnapshot]_vars

\* The columns of a sales line that are computed when it is written.
Snapshot(l) ==
    <<l.order_discount_alloc_gross, l.vat_rate, l.unit_price_net, l.revenue_net,
      l.cost_method, l.unit_cost_basis, l.cost_total, l.profit,
      l.cost_source_po_id>>

\* C14: no step (edit_costs with its recalculation, a purchase import, a
\* later sales import, a change of an item's VAT rate) removes a stored sales
\* line or changes one of its computed columns.
SnapshotStability ==
    [][\A i \in 1..Len(slines) :
          /\ i <= Len(slines')
          /\ Snapshot(slines'[i]) = Snapshot(slines[i])]_vars

\* C14 witness: a stored line whose VAT rate is no longer the item's and whose
\* unit cost is no longer what the purchase history gives.
SnapshotStabilityWitness ==
    \E i \in 1..Len(slines) :
        /\ slines[i].vat_rate # items[slines[i].sku].vat_rate
        /\ \A c \in ResolvedCosts(i) :
              slines[i].unit_cost_basis # Some(RoundDiv(c.num, c.den))
        /\ \E k \in 1..Len(pos) : pos[k].freight_total # None

---------------------------------------------------------------------------
(* The single-item sale specification *)

MaxGross == 4       \* gross selling prices 1..MaxGross cents

SaleItemIds == {1, 2}

\* VAT rates of the items on sale: 0, 0.18 and 0.20.
SaleVatRates == {0, 1800, 2000}

InitSale ==
    /\ today = 1
    /\ items = EmptyTable
    /\ pos = EmptyTable
    /\ plines = EmptyTable
    /\ sorders = EmptyTable
    /\ slines = EmptyTable
    /\ resolved = None
    /\ sale_items \in [SaleItemIds ->
                          [status : {"IN_STOCK"}, vat_rate : SaleVatRates,
                           net_unit_cost : {1}, freight_net : {1}]]
    /\ sales = EmptyTable
    /\ requests = [r \in RequestIds |-> Idle]
    /\ daily_metrics = EmptyTable
    /\ sku_metrics_daily = EmptyTable
    /\ sales_requests = [r \in RequestIds |-> SalesIdle("none", 0)]
    /\ audit_log = EmptyTable
    /\ sale_requests = [r \in RequestIds |-> SaleIdle("none")]

CreateSale == \E id \in SaleItemIds, g \in 1..MaxGross : create_sale(id, g)

ItemsSell == \E id \in SaleItemIds, g \in 1..MaxGross : items_sell(id, g)

NextSale == CreateSale \/ ItemsSell

SpecSale == InitSale /\ [][NextSale]_vars

\* C15: on every stored sale the net revenue and the VAT amount add up to the
\* gross selling price, whichever handler computed them.
VatRoundTrip ==
    \A k \in 1..Len(sales) :
        sales[k].item_net_revenue + sales[k].item_vat_amount
            = sales[k].item_selling_price_gross

---------------------------------------------------------------------------
(* The transaction specification: purchase requests served at the same time,
   one transaction at a step *)

\* The imported order: its allocations are whole storage units under either
\* method and each freight total below, so that a value set equals the value
\* loaded exactly when the stored values are equal.
TxnOrders ==
    { [order_date |-> None, arrival_date |-> Some(1), freight_total |-> None,
       allocation_method |-> "value",
       lines |-> <<[sku |-> "A", qty |-> 1, unit_cost_net |-> 20,
                    packaging_per_unit |-> 0],
                   [sku |-> "B", qty |-> 2, unit_cost_net |-> 10,
                    packaging_per_unit |-> 0]>>] }

TxnFreightInputs == {Some(300), Some(600)}

TxnImport ==
    \E r \in RequestIds, o \in TxnOrders :
        PurchaseRoom(<<o>>) /\ import_commit_rows(r, <<o>>, TRUE)

TxnImportSelect == \E r \in RequestIds : import_commit_select(r)

TxnEditLoad ==
    \E r \in RequestIds, id \in PurchaseOrderIds, f \in TxnFreightInputs,
       m \in Methods : edit_costs_load(r, id, f, m)

TxnEditCommit == \E r \in RequestIds : edit_costs_commit(r)

TxnRecalcRead == \E r \in RequestIds : recalc_read(r)

TxnRecalcWrite == \E r \in RequestIds : recalc_write(r)

NextTxn ==
    \/ TxnImport
    \/ TxnImportSelect
    \/ TxnEditLoad
    \/ TxnEditCommit
    \/ TxnRecalcRead
    \/ TxnRecalcWrite

SpecTxn == Init /\ [][NextTxn]_vars

\* The allocation columns of purchase line i are the ones a recalculation
\* with freight total freight and method method gives.
AllocatedFrom(i, freight, method) ==
    LET id == plines[i].purchase_order_id
        po == [pos[id] EXCEPT !.freight_total = freight,
                              !.allocation_method = method]
    IN plines[i] = recalc_allocations(plines, po, id)[i]

\* C17: in every committed state the lines of every purchase order carry the
\* allocation and the landed cost of the order's stored freight total and
\* method: never stale values, never a null landed cost.
NoPartialWrite ==
    \A i \in 1..Len(plines) :
        AllocatedFrom(i, pos[plines[i].purchase_order_id].freight_total,
                      pos[plines[i].purchase_order_id].allocation_method)

\* C18: no edit_costs request commits a freight total or method to an order
\* between the reads and the commit of another edit_costs request's
\* recalculation of that order (the order read is still the order stored), and
\* the lines of an order are never allocated from two different freight
\* totals.
Serialized ==
    /\ \A r \in RequestIds :
          (requests[r].op = "edit_costs" /\ requests[r].pc = "read")
          => pos[Head(requests[r].pending)] = requests[r].po[1]
    /\ \A id \in 1..Len(pos) :
          \/ \A i \in 1..Len(plines) :
                plines[i].purchase_order_id = id
                => plines[i].landed_unit_cost = None
          \/ \E f \in TxnFreightInputs \cup {None}, m \in Methods :
                \A i \in 1..Len(plines) :
                    plines[i].purchase_order_id = id => AllocatedFrom(i, f, m)

---------------------------------------------------------------------------
(* Metrics: the aggregate recompute over a date range *)

\* The SKUs in the order in which the per-SKU rows are inserted.
MetricSkus == <<"A", "B">>

\* The sum of a sequence of in-memory Decimals.
RECURSIVE RatSum(_)
RatSum(s) ==
    IF s = <<>> THEN <<0, 1>>
    ELSE LET r == RatSum(Tail(s))
         IN Rat(Head(s)[1] * r[2] + r[1] * Head(s)[2], Head(s)[2] * r[2])

\* The ids of the sales lines joined to an order dated d, in id order.
MetricLineIds(d) ==
    SelectSeq([i \in 1..Len(slines) |-> i],
              LAMBDA i : sorders[slines[i].sales_order_id].order_date = d)

\* The gross discount of sales line i: line discount plus allocated order
\* discount, as persisted.
LineDiscountGross(i) ==
    OrZero(slines[i].line_discount_gross)
    + OrZero(slines[i].order_discount_alloc_gross)

\* The totals of the sales lines ids that every aggregate row carries.
MetricTotals(ids) ==
    [units |-> SumSeq([k \in 1..Len(ids) |-> slines[ids[k]].qty]),
     revenue_net |-> SumSeq([k \in 1..Len(ids) |-> OrZero(slines[ids[k]].revenue_net)]),
     cogs |-> SumSeq([k \in 1..Len(ids) |-> OrZero(slines[ids[k]].cost_total)]),
     profit |-> SumSeq([k \in 1..Len(ids) |-> OrZero(slines[ids[k]].profit)]),
     discount_gross |-> SumSeq([k \in 1..Len(ids) |-> LineDiscountGross(ids[k])]),
     discount_net |->
        LET net == RatSum([k \in 1..Len(ids) |->
                             gross_to_net(<<LineDiscountGross(ids[k]), 1>>,
                                          slines[ids[k]].vat_rate)])
        IN Numeric4(net[1], net[2])]

\* The daily_metrics row of date d.
daily_metric(d) ==
    LET ids == MetricLineIds(d)
        t   == MetricTotals(ids)
    IN [metric_date |-> d,
        orders_count |->
            Cardinality({slines[ids[k]].sales_order_id : k \in 1..Len(ids)}),
        units |-> t.units,
        revenue_net |-> t.revenue_net,
        cogs |-> t.cogs,
        profit |-> t.profit,
        discount_gross |-> t.discount_gross,
        discount_net |-> t.discount_net]

\* The sku_metrics_daily row of date d and SKU sku.
sku_metric_daily(d, sku) ==
    LET ids == SelectSeq(MetricLineIds(d), LAMBDA i : slines[i].sku = sku)
        t   == MetricTotals(ids)
    IN [metric_date |-> d,
        sku |-> sku,
        units |-> t.units,
        revenue_net |-> t.revenue_net,
        profit |-> t.profit,
        discount_gross |-> t.discount_gross,
        discount_net |-> t.discount_net]

\* The fresh daily rows of the dates from..to that have sales lines, by date.
RECURSIVE FreshDaily(_, _)
FreshDaily(from, to) ==
    IF from > to THEN <<>>
    ELSE (IF MetricLineIds(from) # <<>> THEN <<daily_metric(from)>> ELSE <<>>)
         \o FreshDaily(from + 1, to)

\* The fresh per-SKU rows of date d, by SKU.
FreshSkuOf(d) ==
    LET row(k) == IF \E i \in 1..Len(slines) :
                        /\ sorders[slines[i].sales_order_id].order_date = d
                        /\ slines[i].sku = MetricSkus[k]
                  THEN <<sku_metric_daily(d, MetricSkus[k])>> ELSE <<>>
    IN row(1) \o row(2)

\* The fresh per-SKU rows of the dates from..to, by date and SKU.
RECURSIVE FreshSku(_, _)
FreshSku(from, to) ==
    IF from > to THEN <<>>
    ELSE FreshSkuOf(from) \o FreshSku(from + 1, to)

\* The rows of table T whose date is outside from..to.
OutsideRange(T, from, to) ==
    SelectSeq(T, LAMBDA r : r.metric_date < from \/ r.metric_date > to)

\* The recompute inserting the fresh rows without deleting the range first.
recomputeMetricsKeepingRows(D, S, from, to) ==
    IF from > to THEN [daily |-> D, sku |-> S]
    ELSE [daily |-> D \o FreshDaily(from, to), sku |-> S \o FreshSku(from, to)]

\* recomputeMetrics(from, to) on the tables D (daily_metrics) and S
\* (sku_metrics_daily): rejected before any deletion when from > to; else
\* the rows of the range are deleted and the fresh rows inserted.
recomputeMetrics(D, S, from, to) ==
    IF from > to THEN [daily |-> D, sku |-> S]
    ELSE [daily |-> OutsideRange(D, from, to) \o FreshDaily(from, to),
          sku |-> OutsideRange(S, from, to) \o FreshSku(from, to)]

\* One run of the recompute, applied as a single atomic unit.
recompute_metrics(from, to) ==
    /\ LET t == recomputeMetrics(daily_metrics, sku_metrics_daily, from, to)
       IN /\ daily_metrics' = t.daily
          /\ sku_metrics_daily' = t.sku
    /\ UNCHANGED <<audit_log, sale_requests, sales_requests, today, items, pos, plines, sorders, slines, resolved,
                   sale_items, sales, requests>>

---------------------------------------------------------------------------
(* The metrics specification: sales imports and recomputes *)

\* The dates of the recompute ranges; orders are dated on the first two.
MetricDates == {1, 2, 3}

\* Imported sales lines: plain, with a line discount, of a second SKU.
MetricLineInputs ==
    { [sku |-> "A", qty |-> 1, unit_price_gross |-> 30, line_discount_gross |-> 0],
      [sku |-> "A", qty |-> 2, unit_price_gross |-> 45, line_discount_gross |-> 10],
      [sku |-> "B", qty |-> 1, unit_price_gross |-> 30, line_discount_gross |-> 0] }

MetricSalesOrders ==
    { [order_number |-> n, channel |-> "shop", order_date |-> Some(d),
       order_discount_gross |-> disc, lines |-> ls] :
          n \in SalesOrderNumbers, d \in {1, 2}, disc \in {None, Some(100)},
          ls \in SeqUpTo(MetricLineInputs, MaxSalesLines) \ {<<>>} }

MetricsSalesImport ==
    \E o \in MetricSalesOrders :
        /\ Len(slines) + Len(o.lines) <= MaxSalesLines
        /\ sales_import_commit(<<o>>, TRUE, "weighted_avg", <<>>)

RecomputeMetrics ==
    \E from \in MetricDates, to \in MetricDates : recompute_metrics(from, to)

NextMetrics == MetricsSalesImport \/ RecomputeMetrics

SpecMetrics == Init /\ [][NextMetrics]_vars

---------------------------------------------------------------------------
(* Claims about the aggregate recompute *)

\* The rows of table T dated within from..to.
InRange(T, from, to) ==
    SelectSeq(T, LAMBDA r : from <= r.metric_date /\ r.metric_date <= to)

\* C19: running the recompute of a range twice in succession on unchanged
\* sales lines and orders leaves, after the second run, the tables the first
\* run left; both times the range holds one daily row per date and one
\* per-SKU row per date and SKU, the rows a computation from empty tables
\* gives.
RecomputeIdempotent ==
    \A from \in MetricDates, to \in MetricDates :
        LET once    == recomputeMetrics(daily_metrics, sku_metrics_daily, from, to)
            twice   == recomputeMetrics(once.daily, once.sku, from, to)
            scratch == recomputeMetrics(EmptyTable, EmptyTable, from, to)
        IN /\ twice = once
           /\ from <= to =>
                /\ InRange(once.daily, from, to) = scratch.daily
                /\ InRange(once.sku, from, to) = scratch.sku
                /\ \A j, k \in 1..Len(once.daily) :
                      once.daily[j].metric_date = once.daily[k].metric_date
                      => j = k
                /\ \A j, k \in 1..Len(once.sku) :
                      /\ once.sku[j].metric_date = once.sku[k].metric_date
                      /\ once.sku[j].sku = once.sku[k].sku
                      => j = k

\* The tables hold the rows of an earlier recompute, a sale imported since
\* has made the rows of one date stale, and that date has lines of two
\* orders and of both SKUs.
RecomputeIdempotentWitness ==
    /\ sku_metrics_daily # EmptyTable
    /\ \E k \in 1..Len(daily_metrics) :
          /\ daily_metrics[k] # daily_metric(daily_metrics[k].metric_date)
          /\ daily_metric(daily_metrics[k].metric_date).orders_count = 2
          /\ Len(FreshSkuOf(daily_metrics[k].metric_date)) = 2

---------------------------------------------------------------------------
(* The sales transaction specification: concurrent sales imports *)

\* Imported orders: two lines of two SKUs sharing an order discount, and
\* two orders of one line of the first SKU.
SalesTxnOrders ==
    { [order_number |-> "S1", channel |-> "shop", order_date |-> None,
       order_discount_gross |-> Some(100),
       lines |-> <<[sku |-> "A", qty |-> 1, unit_price_gross |-> 30,
                    line_discount_gross |-> 0],
                   [sku |-> "B", qty |-> 1, unit_price_gross |-> 30,
                    line_discount_gross |-> 0]>>],
      [order_number |-> "S2", channel |-> "shop", order_date |-> None,
       order_discount_gross |-> None,
       lines |-> <<[sku |-> "A", qty |-> 1, unit_price_gross |-> 30,
                    line_discount_gross |-> 0]>>],
      [order_number |-> "S3", channel |-> "shop", order_date |-> None,
       order_discount_gross |-> None,
       lines |-> <<[sku |-> "A", qty |-> 2, unit_price_gross |-> 45,
                    line_discount_gross |-> 10]>>] }

\* Payloads of one or two orders.
SalesTxnPayloads == SeqUpTo(SalesTxnOrders, 2) \ {<<>>}

SalesTxnBegin ==
    \E r \in RequestIds, orders \in SalesTxnPayloads :
        sales_import_begin(r, orders, TRUE, "weighted_avg")

SalesTxnCheck == \E r \in RequestIds : sales_import_check(r)

SalesTxnFlush ==
    \E r \in RequestIds, ord \in Permutations(1..Len(plines)) :
        sales_import_flush(r, ord)

SalesTxnFinish == \E r \in RequestIds : sales_import_finish(r)

SalesTxnFail == \E r \in RequestIds : sales_import_fail(r)

NextSalesTxn ==
    \/ SalesTxnBegin
    \/ SalesTxnCheck
    \/ SalesTxnFlush
    \/ SalesTxnFinish
    \/ SalesTxnFail

SpecSalesTxn == Init /\ [][NextSalesTxn]_vars

---------------------------------------------------------------------------
(* Claims about the sales import transaction *)

\* Every stored sales order has all the lines of the imported order of its
\* number, each with its item stored and its allocated discount and cost
\* fields.
StoredOrdersComplete ==
    \A k \in 1..Len(sorders) :
        \E o \in SalesTxnOrders :
            /\ o.order_number = sorders[k].order_number
            /\ Len(SalesLinesOf(k)) = Len(o.lines)
            /\ \A j \in 1..Len(o.lines) :
                  LET l == SalesLinesOf(k)[j]
                  IN /\ l.sku = o.lines[j].sku
                     /\ l.sku \in DOMAIN items
                     /\ l.revenue_net # None
                     /\ l.unit_cost_basis # None
                     /\ l.cost_total # None
                     /\ l.profit # None
                     /\ OrZero(l.order_discount_alloc_gross) * Len(o.lines)
                           = OrZero(o.order_discount_gross)

\* C20: a sales import that fails part-way stores none of its orders, lines
\* or items: the stored rows change only when a request commits after its
\* last order, all its rows at once, and every stored order has all its
\* lines with their allocated discount and cost fields.
AllOrNothing ==
    /\ []StoredOrdersComplete
    /\ [][/\ \A r \in RequestIds :
               (sales_requests[r].pc # "idle"
                /\ sales_requests'[r].response = "failed")
               => items' = items /\ sorders' = sorders /\ slines' = slines
          /\ (items' # items \/ sorders' # sorders \/ slines' # slines)
               => \E r \in RequestIds :
                     /\ sales_requests[r].pc = "loop"
                     /\ sales_requests[r].pending = <<>>
                     /\ sales_requests'[r].response = "committed"
                     /\ Len(sorders') = Len(sorders)
                                        + Len(sales_requests[r].own_orders)
                     /\ Len(slines') = Len(slines)
                                       + Len(sales_requests[r].own_lines)]_vars

\* A request has failed after creating an order, the unique constraint
\* having rejected its next one, which the other request stored after the
\* duplicate check; the order it created is not stored.
AllOrNothingWitness ==
    \E r \in RequestIds :
        /\ sales_requests[r].response = "failed"
        /\ sales_requests[r].created_orders = 1
        /\ \A x \in RequestIds \ {r} : sales_requests[x].response = "committed"
        /\ {sorders[k].order_number : k \in 1..Len(sorders)} = {"S1", "S2"}
        /\ Len(slines) = 3

---------------------------------------------------------------------------
(* The sale flow specification: sell, edit and reverse requests served at
   the same time *)

MaxAudit == 3       \* rows of audit_log when a request starts

\* Selling prices in cents: negative, zero and two positive ones.
SalePriceInputs == {-1, 0, 2, 3}

SaleLoadItem ==
    \E r \in RequestIds, op \in {"items_sell", "create_sale"},
       id \in SaleItemIds, price \in SalePriceInputs :
        /\ Len(audit_log) < MaxAudit
        /\ sale_load_item(r, op, id, price)

\* An edit carries a price, a reverse none.
SaleLoadSale ==
    \E r \in RequestIds, pk \in {sales[k].pk_id : k \in 1..Len(sales)} :
        /\ Len(audit_log) < MaxAudit
        /\ \/ \E op \in {"sales_edit", "update_sale"}, price \in SalePriceInputs :
                 sale_load_sale(r, op, pk, price)
           \/ \E op \in {"sales_reverse", "reverse_sale"} :
                 sale_load_sale(r, op, pk, 0)

SellCommit == \E r \in RequestIds : sell_commit(r)

EditCommit == \E r \in RequestIds : edit_commit(r)

ReverseCommit == \E r \in RequestIds : reverse_commit(r)

NextSaleFlow ==
    \/ SaleLoadItem
    \/ SaleLoadSale
    \/ SellCommit
    \/ EditCommit
    \/ ReverseCommit

\* The items on sale carry a VAT rate of 0.18.
InitSaleFlow ==
    /\ InitSale
    /\ \A id \in SaleItemIds : sale_items[id].vat_rate = 1800

SpecSaleFlow == InitSaleFlow /\ [][NextSaleFlow]_vars

---------------------------------------------------------------------------
(* Claims about the single-item sale flow *)

\* C21: a request of items_sell, create_sale, sales_edit or update_sale
\* whose selling price is zero or negative ends with an error response and
\* leaves the sales, the audit log and the items as they were.
NonPositivePriceRejected ==
    [][\A r \in RequestIds :
          (/\ sale_requests[r].pc = "loaded"
           /\ sale_requests[r].op \in {"items_sell", "create_sale",
                                       "sales_edit", "update_sale"}
           /\ sale_requests[r].price <= 0
           /\ sale_requests'[r].pc = "idle")
          => /\ sale_requests'[r].response = "error"
             /\ sales' = sales
             /\ audit_log' = audit_log
             /\ sale_items' = sale_items]_vars

\* The Sale rows that reference item id.
SalesOfItem(id) == {k \in 1..Len(sales) : sales[k].item_pk_id = id}

\* No item is referenced by two Sale rows.
AtMostOneSale == \A id \in SaleItemIds : Cardinality(SalesOfItem(id)) <= 1

\* C30: whatever sell, edit and reverse requests have run and however they
\* interleaved, no item is referenced by two Sale rows, an item is SOLD
\* exactly when one Sale row references it, and an IN_STOCK item has none.
SoldIffOneSale ==
    /\ AtMostOneSale
    /\ \A id \in SaleItemIds :
          /\ sale_items[id].status = "SOLD" <=> Cardinality(SalesOfItem(id)) = 1
          /\ sale_items[id].status = "IN_STOCK" => SalesOfItem(id) = {}

---------------------------------------------------------------------------
(* Claims about quantities *)

\* C22: every stored purchase line and every stored sales line has a
\* quantity that is not negative.
QuantitiesNonNegative ==
    /\ \A i \in 1..Len(plines) : plines[i].qty >= 0
    /\ \A i \in 1..Len(slines) : slines[i].qty >= 0

---------------------------------------------------------------------------
(* Claims about rounding *)

\* Sale row k holds the exact net revenue and the exact profit rounded to
\* the cent, half a cent rounded up, and as VAT amount the exact VAT so
\* rounded or the rest of the gross price.
SaleRoundedHalfUp(k) ==
    LET item == sale_items[sales[k].item_pk_id]
        n == sales[k].item_selling_price_gross * 10000
        d == 10000 + item.vat_rate
        costs == item.net_unit_cost + item.freight_net
    IN /\ sales[k].item_net_revenue = RoundDiv(n, d)
       /\ sales[k].item_profit = RoundDiv(n - costs * d, d)
       /\ \/ sales[k].item_vat_amount
                = RoundDiv(sales[k].item_selling_price_gross * d - n, d)
          \/ sales[k].item_vat_amount
                = sales[k].item_selling_price_gross - sales[k].item_net_revenue

\* C23: the net revenue, the VAT amount and the profit of every stored sale
\* are rounded to the cent with half a cent rounded up, whichever handler
\* stored the sale.
RoundedHalfUp == \A k \in 1..Len(sales) : SaleRoundedHalfUp(k)

\* The same for the sales that create_sale stored.
RoundedHalfUpCreateSale ==
    \A k \in 1..Len(sales) :
        sales[k].via = "create_sale" => SaleRoundedHalfUp(k)

---------------------------------------------------------------------------
(* The candidate sort specification: the sort of _compute_unit_cost_basis
   applied to candidate lists *)

\* Candidates (eff, po.id, qty, cost): without an effective date, and dated
\* on the first and the second day.
SortCandidateInputs ==
    [eff : {None, Some(1), Some(2)}, po_id : PurchaseOrderIds, qty : {1},
     cost : {50000, 70000}]

\* candidates_sorted[0] of a list of candidates, the list kept with it.
sort_candidates(c) ==
    /\ resolved' = Some([candidates |-> c, first |-> SortedFirst(c)])
    /\ UNCHANGED <<today, items, pos, plines, sorders, slines, sale_items,
                   sales, requests, daily_metrics, sku_metrics_daily,
                   sales_requests, audit_log, sale_requests>>

SortCandidates ==
    \E c \in SeqUpTo(SortCandidateInputs, MaxLines) \ {<<>>} : sort_candidates(c)

NextSort == SortCandidates

SpecSort == Init /\ [][NextSort]_vars

---------------------------------------------------------------------------
(* The VAT specification: sales imports and changes of an item's VAT rate *)

\* VAT rates an item can be given: 0, 5 and 18 percent.
ItemVatRates == {0, 500, 1800}

\* Imported orders of one line, with and without an order discount.
VatSalesOrders ==
    { [order_number |-> n, channel |-> "shop", order_date |-> None,
       order_discount_gross |-> d, lines |-> <<ln>>] :
          n \in SalesOrderNumbers \cup {"S3"}, d \in {None, Some(20)},
          ln \in { [sku |-> "A", qty |-> 2, unit_price_gross |-> 45,
                    line_discount_gross |-> 10],
                   [sku |-> "B", qty |-> 1, unit_price_gross |-> 30,
                    line_discount_gross |-> 0] } }

VatSalesImport ==
    \E o \in VatSalesOrders :
        /\ Len(slines) + Len(o.lines) <= MaxSalesLines
        /\ sales_import_commit(<<o>>, TRUE, "weighted_avg", <<>>)

VatUpdateItem == \E sku \in SKUs, v \in ItemVatRates : update_item(sku, v)

NextVat == VatSalesImport \/ VatUpdateItem

SpecVat == Init /\ [][NextVat]_vars

\* Line l, written in a step that starts with the items I, carries the VAT
\* rate of its item (the rate a new item is created with when I has none)
\* and the net of its gross amount after all discounts at that rate.
WrittenAtItemRate(I, l) ==
    LET rate  == IF l.sku \in DOMAIN I THEN I[l.sku].vat_rate ELSE DefaultVat
        after == StoredBase(l) - OrZero(l.order_discount_alloc_gross)
        net   == gross_to_net(<<IF after < 0 THEN 0 ELSE after, 1>>, rate)
    IN /\ l.vat_rate = rate
       /\ l.revenue_net = Some(Numeric4(net[1], net[2]))

\* C25: every sales line an import writes carries its item's VAT rate at
\* that time, a rate of 0 included, and the net revenue at that rate.
ItemVatApplied ==
    [][\A i \in (Len(slines) + 1)..Len(slines') :
          WrittenAtItemRate(items, slines'[i])]_vars

\* The same for the lines of items whose rate is not 0.
NonZeroItemVatApplied ==
    [][\A i \in (Len(slines) + 1)..Len(slines') :
          (slines'[i].sku \in DOMAIN items => items[slines'[i].sku].vat_rate # 0)
          => WrittenAtItemRate(items, slines'[i])]_vars

---------------------------------------------------------------------------
(* Dashboard: the totals of a period *)

\* The ids of the sales lines joined to an order dated within from..to.
PeriodLineIds(from, to) ==
    SelectSeq([i \in 1..Len(slines) |-> i],
              LAMBDA i :
                 LET d == sorders[slines[i].sales_order_id].order_date
                 IN from <= d /\ d <= to)

\* _sum_period_live: revenue, profit and units summed over the sales lines
\* of the orders dated within from..to.
sum_period_live(from, to) ==
    LET ids == PeriodLineIds(from, to)
    IN <<SumSeq([k \in 1..Len(ids) |-> OrZero(slines[ids[k]].revenue_net)]),
         SumSeq([k \in 1..Len(ids) |-> OrZero(slines[ids[k]].profit)]),
         SumSeq([k \in 1..Len(ids) |-> slines[ids[k]].qty])>>

\* The daily_metrics rows dated within from..to.
PeriodMetrics(from, to) ==
    SelectSeq(daily_metrics,
              LAMBDA r : from <= r.metric_date /\ r.metric_date <= to)

\* _sum_period_agg: the same totals summed over the daily_metrics rows.
sum_period_agg(from, to) ==
    LET rows == PeriodMetrics(from, to)
    IN <<SumSeq([k \in 1..Len(rows) |-> rows[k].revenue_net]),
         SumSeq([k \in 1..Len(rows) |-> rows[k].profit]),
         SumSeq([k \in 1..Len(rows) |-> rows[k].units])>>

\* _sum_period: the aggregate totals when the range holds any daily_metrics
\* row, else the live totals.
sum_period(from, to) ==
    LET any_agg == Len(PeriodMetrics(from, to))
    IN IF any_agg > 0 THEN sum_period_agg(from, to)
       ELSE sum_period_live(from, to)

\* The range from..to has a daily_metrics row for each of its dates.
FullyAggregated(from, to) ==
    \A d \in from..to : \E k \in 1..Len(daily_metrics) :
        daily_metrics[k].metric_date = d

\* C26: the totals of a period come from the daily_metrics rows only when
\* every date of the range has one; otherwise they are the live totals, so
\* no sale of a date without a row is left out.
LiveUnlessFullyAggregated ==
    \A from \in MetricDates, to \in MetricDates :
        from <= to =>
            sum_period(from, to) =
                IF FullyAggregated(from, to) THEN sum_period_agg(from, to)
                ELSE sum_period_live(from, to)

\* The totals of a period with no daily_metrics row are the live totals.
LiveWhenNoAggregates ==
    \A from \in MetricDates, to \in MetricDates :
        PeriodMetrics(from, to) = <<>>
        => sum_period(from, to) = sum_period_live(from, to)

---------------------------------------------------------------------------
(* Claims about purchase requests that have run to completion *)

\* The orders are imported by requests served alone; the edit_costs requests
\* are served at the same time, one transaction at a step.
EditImport ==
    \E o \in TxnOrders :
        PurchaseRoom(<<o>>) /\ purchase_import_commit(<<o>>, TRUE)

NextEdit ==
    \/ EditImport
    \/ TxnEditLoad
    \/ TxnEditCommit
    \/ TxnRecalcRead
    \/ TxnRecalcWrite

SpecEdit == Init /\ [][NextEdit]_vars

\* No purchase request is under way.
Quiescent == \A r \in RequestIds : requests[r] = Idle

\* C27: once every request has returned, the lines of every order that an
\* edit_costs request has given a freight total carry the allocation and the
\* landed cost of the freight total and method the order is stored with.
SettledFromStoredCosts ==
    Quiescent =>
        \A i \in 1..Len(plines) :
            LET po == pos[plines[i].purchase_order_id]
            IN po.freight_total # None
               => AllocatedFrom(i, po.freight_total, po.allocation_method)

---------------------------------------------------------------------------
(* The import specification: purchase imports served at the same time, one
   transaction at a step *)

\* Imported orders of one line, with and without a freight total.
ImportTxnOrders ==
    { [order_date |-> None, arrival_date |-> Some(1), freight_total |-> f,
       allocation_method |-> "value", lines |-> <<ln>>] :
          f \in {None, Some(300)},
          ln \in { [sku |-> "A", qty |-> 1, unit_cost_net |-> 20,
                    packaging_per_unit |-> 0],
                   [sku |-> "B", qty |-> 2, unit_cost_net |-> 10,
                    packaging_per_unit |-> 0] } }

ImportTxnPayloads == SeqUpTo(ImportTxnOrders, 2) \ {<<>>}

ImportTxnRows ==
    \E r \in RequestIds, orders \in ImportTxnPayloads :
        PurchaseRoom(orders) /\ import_commit_rows(r, orders, TRUE)

NextImport ==
    \/ ImportTxnRows
    \/ TxnImportSelect
    \/ TxnRecalcRead
    \/ TxnRecalcWrite

SpecImport == Init /\ [][NextImport]_vars

\* C28: once every import has returned, _recalc_allocations has been applied
\* to the orders each of them created: every line of every stored order has a
\* landed unit cost, also when the orders of another import were stored
\* between an import's commit and its query of the newest orders.
ImportedOrdersRecalculated ==
    Quiescent =>
        \A i \in 1..Len(plines) : plines[i].landed_unit_cost # None

---------------------------------------------------------------------------
(* Claims about sales orders imported twice *)

\* Order o of a payload is stored already.
StoredAlready(o) ==
    \E k \in 1..Len(sorders) :
        /\ sorders[k].channel = o.channel
        /\ sorders[k].order_number = o.order_number

\* No two stored sales orders have the same channel and order number.
OrderKeysUnique ==
    \A j, k \in 1..Len(sorders) :
        (/\ sorders[j].channel = sorders[k].channel
         /\ sorders[j].order_number = sorders[k].order_number) => j = k

\* The import of a payload whose orders are all stored already writes
\* nothing.
ReimportWritesNothing ==
    \A p \in SalesTxnPayloads :
        (\A n \in 1..Len(p) : StoredAlready(p[n]))
        => \A ord \in Permutations(1..Len(plines)) :
              LET db == sales_import_orders(pos, plines,
                            [items |-> items, sorders |-> sorders,
                             slines |-> slines],
                            p, TRUE, "weighted_avg", ord)
              IN db.sorders = sorders /\ db.slines = slines /\ db.items = items

\* C29: the sales import never stores two orders with the same channel and
\* order number, and the import of a batch whose orders all exist already
\* creates no order and no line and leaves the stored orders and lines as
\* they are: each such order is skipped at the head of the loop, and the
\* commit of a request that created no order changes nothing.
NoDuplicateOrders ==
    /\ [](OrderKeysUnique /\ ReimportWritesNothing)
    /\ [][\A r \in RequestIds :
            LET q == sales_requests[r]
            IN /\ (/\ q.pc = "loop" /\ q.pending # <<>>
                   /\ StoredAlready(Head(q.pending))
                   /\ sales_requests'[r] # q
                   /\ sales_requests'[r].pc # "idle")
                  => sales_requests'[r] = [q EXCEPT !.pending = Tail(q.pending)]
               /\ (/\ q.pc = "loop" /\ q.pending = <<>>
                   /\ q.created_orders = 0
                   /\ sales_requests'[r].response = "committed")
                  => sorders' = sorders /\ slines' = slines /\ items' = items]_vars

\* Two orders are stored and a request whose orders were all stored
\* already has committed with no order created.
NoDuplicateOrdersWitness ==
    /\ Len(sorders) = 2
    /\ \E r \in RequestIds : sales_requests[r] = SalesIdle("committed", 0)

====
